---- MODULE Spec2Model ----
(***************************************************************************)
(* TeaVPN2 TCP server core (poll based, single reactor).                   *)
(*                                                                         *)
(* The state is the client array, the free-slot stack, the client part of  *)
(* the poll set and the stop flag.  Every handler the event loop calls     *)
(* (accept_conn, handle_iface_read, handle_client) is one action.  The     *)
(* variable `last` is an observation of the handler that ran last: the     *)
(* ordered list of the system calls and transitions it performed.          *)
(*                                                                         *)
(* pc is the position of the server process (bring-up step, place in the   *)
(* event loop, teardown), sys the handles and arrays of the server state   *)
(* with the ordered list of what bring-up and teardown acquired and        *)
(* released, loop the locals of the event loop.                            *)
(*                                                                         *)
(* A byte buffer is a sequence holding the bytes up to the highest offset  *)
(* ever written; the bytes behind it are the zeroes left by calloc/memset. *)
(***************************************************************************)
EXTENDS Integers, Sequences, FiniteSets, TLC

VARIABLES clients, fds_stack, clfds, stop, aborted, last, accepted,
          pc, sys, loop,
          cl_stk, threads, cl_slots, rings, tr_assign, live, conn_seq,
          sess_stk_lock, sess_map_lock, sess_stk, sess_map, sess,
          active_sess, callers

\* the state of the io_uring server (linux.old2/tcp_io_uring.old.c), a
\* different backend from the poll server: a run moves one of the two
uring_vars == <<cl_stk, threads, cl_slots, rings, tr_assign, live, conn_seq>>

\* the state of the UDP session pool and of the threads calling into it
udp_vars == <<sess_stk_lock, sess_map_lock, sess_stk, sess_map, sess,
              active_sess, callers>>

vars == <<clients, fds_stack, clfds, stop, aborted, last, accepted,
          pc, sys, loop, uring_vars, udp_vars>>

----------------------------------------------------------------------------
(* Bounds of the exploration *)

MaxConn == 2
MaxAccept == 2
MaxAcceptB == 1
MaxRecvC == 3
MaxErrC == 1
MaxRecvB == 13
MaxErrSeen == 12
MaxSendC == 3
MaxAcceptS == 1
MaxRecvS == 4
MaxAcceptA == 3
MaxRecvA == 2

(* Program constants *)

MAX_ERR_C == 10
CT_NEW == 0
CT_ESTABLISHED == 1
CT_AUTHENTICATED == 2
CT_DISCONNECTED == 3

CLI_PKT_HELLO == 0
CLI_PKT_AUTH == 1
CLI_PKT_IFACE_ACK == 2
CLI_PKT_IFACE_FAIL == 3
CLI_PKT_DATA == 4
CLI_PKT_REQSYNC == 5
CLI_PKT_CLOSE == 6

CLI_PKT_MIN_RSIZ == 4
CLI_PKT_DATA_SIZ == 4096
CLI_PKT_RSIZE == CLI_PKT_MIN_RSIZ + CLI_PKT_DATA_SIZ

SRV_PKT_BANNER == 0
SRV_PKT_AUTH_OK == 1
SRV_PKT_AUTH_REJECT == 2
SRV_PKT_DATA == 3
SRV_PKT_MIN_RSIZ == 4
SIZEOF_srv_banner == 9
SIZEOF_srv_auth_ok == 50
SIZEOF_auth_username == 64
SIZEOF_auth_password == 64
TUN_READ_SIZE == 4096

Slots == 0 .. (MaxConn - 1)

----------------------------------------------------------------------------
(* Integer widths and byte order *)

U8(x) == x % 256
U16(x) == x % 65536

\* htons: the two bytes of a 16-bit value as they appear on the wire
htons(x) == << (x \div 256) % 256, x % 256 >>
\* ntohs: the 16-bit value of two wire bytes
ntohs(b1, b2) == b1 * 256 + b2

----------------------------------------------------------------------------
(* Byte buffers *)

\* the byte at 0-based offset k
BufAt(buf, k) == IF k + 1 <= Len(buf) THEN buf[k + 1] ELSE 0

Zeros(n) == IF n > 0 THEN [k \in 1 .. n |-> 0] ELSE << >>

\* n bytes starting at 0-based offset off
BufRead(buf, off, n) ==
    SubSeq(buf \o Zeros(off + n - Len(buf)), off + 1, off + n)

\* store the bytes `data` at 0-based offset off
BufWrite(buf, off, data) ==
    SubSeq(buf \o Zeros(off - Len(buf)), 1, off) \o data
        \o SubSeq(buf, off + Len(data) + 1, Len(buf))

\* memmove(buf, buf + from, n)
memmove(buf, from, n) == BufWrite(buf, 0, BufRead(buf, from, n))

\* the C string starting at offset off (bytes up to the first NUL), at most n bytes
RECURSIVE CStr(_, _, _)
CStr(buf, off, n) ==
    IF n = 0 \/ BufAt(buf, off) = 0 THEN << >>
    ELSE << BufAt(buf, off) >> \o CStr(buf, off + 1, n - 1)

----------------------------------------------------------------------------
(* Slot allocator *)

\* a push that slips the value under the top of the stack
push_fds_under(stk, val) ==
    IF stk.sp > 0 /\ stk.sp < stk.max_sp
    THEN [stk EXCEPT !.arr = [stk.arr EXCEPT ![stk.sp - 1] = stk.arr[stk.sp],
                                             ![stk.sp] = val],
                     !.sp = stk.sp - 1]
    ELSE IF stk.sp > 0
    THEN [stk EXCEPT !.arr = [stk.arr EXCEPT ![stk.sp - 1] = val],
                     !.sp = stk.sp - 1]
    ELSE stk

push_fds(stk, val) ==
    IF stk.sp > 0
    THEN [stk EXCEPT !.arr = [stk.arr EXCEPT ![stk.sp - 1] = val],
                     !.sp = stk.sp - 1]
    ELSE stk

\* assert(sp > 0) of push_fds
push_fds_pre(stk) == stk.sp > 0

\* a pop that takes the entry below the top of an empty stack
pop_fds_unchecked(stk) ==
    IF stk.sp = stk.max_sp
    THEN [val |-> stk.arr[stk.max_sp - 1], stk |-> stk]
    ELSE [val |-> stk.arr[stk.sp], stk |-> [stk EXCEPT !.sp = stk.sp + 1]]

\* a pop that hands out the top entry and leaves it on the stack
pop_fds_keep(stk) ==
    IF stk.sp = stk.max_sp
    THEN [val |-> -1, stk |-> stk]
    ELSE [val |-> stk.arr[stk.sp], stk |-> stk]

\* pop_fds: the returned value (-1 when nothing is on the stack) and the stack
pop_fds(stk) ==
    IF stk.sp = stk.max_sp
    THEN [val |-> -1, stk |-> stk]
    ELSE [val |-> stk.arr[stk.sp], stk |-> [stk EXCEPT !.sp = stk.sp + 1]]

\* assert(sp <= max_sp) of pop_fds
pop_fds_pre(stk) == stk.sp <= stk.max_sp

RECURSIVE push_all(_, _)
push_all(stk, n) == IF n = 0 THEN stk ELSE push_all(push_fds(stk, n - 1), n - 1)

init_client_slots(i) ==
    [is_used |-> FALSE, is_conn |-> FALSE, is_auth |-> FALSE,
     ctstate |-> 0, username |-> << >>, cli_fd |-> -1, arr_idx |-> i,
     err_c |-> 0, send_c |-> 0, recv_c |-> 0, recv_s |-> 0,
     recv_buf |-> << >>]

----------------------------------------------------------------------------
(* The io_uring server with several threads (linux.old2/tcp_io_uring.old.c):
   thread 0 owns the listener and registers every new connection, each
   thread serves the completions of its own ring, and the client free stack
   cl_stk is shared.  Each thread is sequential; the steps below are the
   places where another thread may run in between. *)

NThreads == 2

Threads == 0 .. NThreads - 1

\* connections the listener hands over in one run
MaxUAccept == 3

NoOwner == -1

\* a thread at the top of its loop, with no locals in use
thread_idle == [pc |-> "top", at |-> "none", cli_fd |-> -1, idx |-> -1,
                sp |-> 0, ret |-> "ok"]

\* the free stack with every slot index on it, index 0 on top
cl_stk_init == [lock |-> NoOwner, sp |-> 0, max_sp |-> MaxConn,
                arr |-> [k \in Slots |-> k]]

InitUring ==
    /\ cl_stk = cl_stk_init
    /\ threads = [t \in Threads |-> thread_idle]
    /\ cl_slots = [i \in Slots |-> [cli_fd |-> -1, idx |-> i]]
    /\ rings = [t \in Threads |-> {}]
    /\ tr_assign = 0
    /\ live = {}
    /\ conn_seq = 0

\* bt_mutex_lock returns only when no thread holds the mutex
bt_mutex_free(lock) == lock = NoOwner

\* what the poll server owns, but for the stop flag the two servers share
\* by name
poll_rest == <<clients, fds_stack, clfds, aborted, last, accepted, pc, sys,
               loop>>

\* while (!state->stop): wait for a completion
run_thread(t) ==
    /\ threads[t].pc = "top"
    /\ threads' = [threads EXCEPT ![t].pc = IF stop THEN "exit" ELSE "wait"]
    /\ UNCHANGED <<cl_stk, cl_slots, rings, tr_assign, live, conn_seq, stop,
                   poll_rest>>

\* the wait times out, or a receive completes with data and is armed again
do_uring_wait(t) ==
    /\ threads[t].pc = "wait"
    /\ threads' = [threads EXCEPT ![t].pc = "top"]
    /\ UNCHANGED <<cl_stk, cl_slots, rings, tr_assign, live, conn_seq, stop,
                   poll_rest>>

\* the accept completes on the ring of thread 0: a connection that goes on
\* to the free stack, one whose address cannot be printed (inet_ntop), or an
\* error of accept itself
handle_event_tcp(t) ==
    /\ threads[t].pc = "wait"
    /\ t = 0
    /\ \/ /\ conn_seq < MaxUAccept
          /\ conn_seq' = conn_seq + 1
          /\ threads' = [threads EXCEPT ![t] =
                 [thread_idle EXCEPT !.pc = "lock", !.at = "register",
                                     !.cli_fd = conn_seq + 1]]
          /\ UNCHANGED stop
       \/ /\ conn_seq < MaxUAccept
          /\ conn_seq' = conn_seq + 1
          /\ threads' = [threads EXCEPT ![t] =
                 [thread_idle EXCEPT !.pc = "out_close", !.ret = "fatal",
                                     !.cli_fd = conn_seq + 1]]
          /\ UNCHANGED stop
       \/ /\ threads' = [threads EXCEPT ![t].pc = "exit"]
          /\ stop' = TRUE
          /\ UNCHANGED conn_seq
    /\ UNCHANGED <<cl_stk, cl_slots, rings, tr_assign, live, poll_rest>>

\* bt_mutex_lock(&state->cl_stk.lock)
stk_lock(t) ==
    /\ threads[t].pc = "lock"
    /\ bt_mutex_free(cl_stk.lock)
    /\ cl_stk' = [cl_stk EXCEPT !.lock = t]
    /\ threads' = [threads EXCEPT ![t].pc =
           IF threads[t].at = "register" THEN "pop" ELSE "push"]
    /\ UNCHANGED <<cl_slots, rings, tr_assign, live, conn_seq, stop,
                   poll_rest>>

\* srstk_pop: sp = cl_stk->sp; empty, or ret = arr[sp++]
srstk_pop_load(t) ==
    /\ threads[t].pc = "pop"
    /\ threads' = [threads EXCEPT ![t] =
           IF cl_stk.sp = cl_stk.max_sp
           THEN [@ EXCEPT !.pc = "unlock", !.idx = -1]
           ELSE [@ EXCEPT !.pc = "pop_st", !.idx = cl_stk.arr[cl_stk.sp],
                          !.sp = cl_stk.sp + 1]]
    /\ UNCHANGED <<cl_stk, cl_slots, rings, tr_assign, live, conn_seq, stop,
                   poll_rest>>

\* srstk_pop: cl_stk->sp = sp
srstk_pop_store(t) ==
    /\ threads[t].pc = "pop_st"
    /\ cl_stk' = [cl_stk EXCEPT !.sp = threads[t].sp]
    /\ threads' = [threads EXCEPT ![t].pc = "unlock", ![t].sp = 0]
    /\ UNCHANGED <<cl_slots, rings, tr_assign, live, conn_seq, stop,
                   poll_rest>>

\* srstk_push: sp = cl_stk->sp; full, or go on
srstk_push_load(t) ==
    /\ threads[t].pc = "push"
    /\ threads' = [threads EXCEPT ![t] =
           IF cl_stk.sp = 0
           THEN [@ EXCEPT !.pc = "unlock"]
           ELSE [@ EXCEPT !.pc = "push_st", !.sp = cl_stk.sp]]
    /\ UNCHANGED <<cl_stk, cl_slots, rings, tr_assign, live, conn_seq, stop,
                   poll_rest>>

\* srstk_push: arr[--sp] = idx; cl_stk->sp = sp
srstk_push_store(t) ==
    /\ threads[t].pc = "push_st"
    /\ cl_stk' = [cl_stk EXCEPT !.arr[threads[t].sp - 1] = threads[t].idx,
                                !.sp = threads[t].sp - 1]
    /\ threads' = [threads EXCEPT ![t].pc = "unlock", ![t].sp = 0]
    /\ UNCHANGED <<cl_slots, rings, tr_assign, live, conn_seq, stop,
                   poll_rest>>

\* bt_mutex_unlock(&state->cl_stk.lock), and where the caller goes on:
\* register_client with the popped index, its failure path to the close of
\* the socket, close_client_conn back to the loop
stk_unlock(t) ==
    /\ threads[t].pc = "unlock"
    /\ cl_stk' = [cl_stk EXCEPT !.lock = NoOwner]
    /\ threads' = [threads EXCEPT ![t] =
           CASE threads[t].at = "register" /\ threads[t].idx = -1
                    -> [@ EXCEPT !.pc = "out_close", !.ret = "eagain"]
             [] threads[t].at = "register" /\ threads[t].idx # -1
                    -> [@ EXCEPT !.pc = "register"]
             [] threads[t].at = "fail"
                    -> [@ EXCEPT !.pc = "out_close"]
             [] OTHER -> thread_idle]
    /\ UNCHANGED <<cl_slots, rings, tr_assign, live, conn_seq, stop,
                   poll_rest>>

\* __register_client: up to num_threads + 1 draws of the round-robin counter
\* for a thread with a free submission entry, socket set-up, and the first
\* receive submitted on the ring of the assignee.  The counter is a
\* uint32_t; a run of MaxUAccept connections stays far below its wrap.
register_client_inner(t) ==
    /\ threads[t].pc = "register"
    /\ \E tries \in 1 .. NThreads + 1 :
          /\ tr_assign' = tr_assign + tries
          /\ \/ /\ tries = NThreads + 1
                /\ threads' = [threads EXCEPT ![t].pc = "lock",
                                              ![t].at = "fail",
                                              ![t].ret = "eagain"]
                /\ UNCHANGED <<rings, live>>
             \/ /\ threads' = [threads EXCEPT ![t].pc = "lock",
                                              ![t].at = "fail",
                                              ![t].ret = "fatal"]
                /\ UNCHANGED <<rings, live>>
             \/ /\ LET a == (tr_assign + tries - 1) % NThreads
                       c == << threads[t].cli_fd, threads[t].idx >>
                   IN  /\ rings' = [rings EXCEPT ![a] = @ \cup {c}]
                       /\ live' = live \cup {c}
                /\ threads' = [threads EXCEPT ![t].pc = "set_fd"]
    /\ UNCHANGED <<cl_stk, cl_slots, conn_seq, stop, poll_rest>>

\* __register_client after the submit: client->cli_fd = cli_fd
register_client_set_fd(t) ==
    /\ threads[t].pc = "set_fd"
    /\ cl_slots' = [cl_slots EXCEPT ![threads[t].idx].cli_fd =
                        threads[t].cli_fd]
    /\ threads' = [threads EXCEPT ![t] = thread_idle]
    /\ UNCHANGED <<cl_stk, rings, tr_assign, live, conn_seq, stop,
                   poll_rest>>

\* register_client, out_close: the socket is closed; handle_event_tcp arms
\* the accept again after -EAGAIN and stops the server after another error
register_client_out_close(t) ==
    /\ threads[t].pc = "out_close"
    /\ IF threads[t].ret = "eagain"
       THEN /\ threads' = [threads EXCEPT ![t] = thread_idle]
            /\ UNCHANGED stop
       ELSE /\ threads' = [threads EXCEPT ![t] =
                   [thread_idle EXCEPT !.pc = "exit"]]
            /\ stop' = TRUE
    /\ UNCHANGED <<cl_stk, cl_slots, rings, tr_assign, live, conn_seq,
                   poll_rest>>

\* a receive completes with 0 or an error on the ring of thread t
handle_event_client(t) ==
    /\ threads[t].pc = "wait"
    /\ \E c \in rings[t] :
          /\ rings' = [rings EXCEPT ![t] = @ \ {c}]
          /\ threads' = [threads EXCEPT ![t] =
                 [thread_idle EXCEPT !.pc = "close", !.cli_fd = c[1],
                                     !.idx = cl_slots[c[2]].idx]]
    /\ UNCHANGED <<cl_stk, cl_slots, tr_assign, live, conn_seq, stop,
                   poll_rest>>

\* close_client_conn that pushes without taking the mutex
close_client_conn_nolock(t) ==
    /\ threads[t].pc = "close"
    /\ cl_slots' = [cl_slots EXCEPT ![threads[t].idx].cli_fd = -1]
    /\ live' = live \ {<< threads[t].cli_fd, threads[t].idx >>}
    /\ threads' = [threads EXCEPT ![t].pc = "push", ![t].at = "close"]
    /\ UNCHANGED <<cl_stk, rings, tr_assign, conn_seq, stop, poll_rest>>

\* close_client_conn: close(client->cli_fd), reset_client_state, then the
\* push under the mutex.  The descriptor closed is the one the entry holds
\* at that moment, which is -1 when thread 0 has not stored it yet.
close_client_conn(t) ==
    /\ threads[t].pc = "close"
    /\ cl_slots' = [cl_slots EXCEPT ![threads[t].idx].cli_fd = -1]
    /\ live' = live \ {<< threads[t].cli_fd, threads[t].idx >>}
    /\ threads' = [threads EXCEPT ![t].pc = "lock", ![t].at = "close"]
    /\ UNCHANGED <<cl_stk, rings, tr_assign, conn_seq, stop, poll_rest>>

NextUring ==
    \E t \in Threads :
        \/ run_thread(t) /\ UNCHANGED udp_vars
        \/ do_uring_wait(t) /\ UNCHANGED udp_vars
        \/ handle_event_tcp(t) /\ UNCHANGED udp_vars
        \/ handle_event_client(t) /\ UNCHANGED udp_vars
        \/ stk_lock(t) /\ UNCHANGED udp_vars
        \/ srstk_pop_load(t) /\ UNCHANGED udp_vars
        \/ srstk_pop_store(t) /\ UNCHANGED udp_vars
        \/ srstk_push_load(t) /\ UNCHANGED udp_vars
        \/ srstk_push_store(t) /\ UNCHANGED udp_vars
        \/ stk_unlock(t) /\ UNCHANGED udp_vars
        \/ register_client_inner(t) /\ UNCHANGED udp_vars
        \/ register_client_set_fd(t) /\ UNCHANGED udp_vars
        \/ register_client_out_close(t) /\ UNCHANGED udp_vars
        \/ close_client_conn(t) /\ UNCHANGED udp_vars

----------------------------------------------------------------------------
(* The UDP session pool: get_udp_sess, put_udp_session, map_find_udp_sess *)

NUdpThreads == 3
NSess == 2
UdpThreads == 1 .. NUdpThreads
SessIdx == 0 .. NSess - 1

\* source addresses of datagrams: 1 and 65537 fall into one bucket
UdpAddrs == {1, 65537}
UdpPort == 5000

\* errno values the session pool sets
ENOENT == 2
EAGAIN == 11
ENOMEM == 12

\* idx1 = addr & 0xff, idx2 = (addr >> 8) & 0xff
addr_to_bkt(addr) == << addr % 256, (addr \div 256) % 256 >>

Buckets == {addr_to_bkt(a) : a \in UdpAddrs}

\* a session as reset_udp_session leaves it
reset_udp_session == [src_addr |-> 0, src_port |-> 0, is_connected |-> FALSE]

\* a caller outside any call of the pool
caller_idle == [pc |-> "idle", addr |-> 0, port |-> 0, idx |-> -1,
                ret |-> 0, err |-> 0]

\* a caller back from a call: the locals are gone, the return value and
\* errno are what the call left
caller_return(c) == [caller_idle EXCEPT !.ret = c.ret, !.err = c.err]

\* the pool after initialisation: every session free, index 0 on top of the
\* stack, every bucket with its head entry empty, no lock held
InitUdp ==
    /\ sess_stk_lock = NoOwner
    /\ sess_map_lock = NoOwner
    /\ sess_stk = [k \in 1 .. NSess |-> k - 1]
    /\ sess_map = [b \in Buckets |-> << -1 >>]
    /\ sess = [i \in SessIdx |-> reset_udp_session]
    /\ active_sess = 0
    /\ callers = [t \in UdpThreads |-> caller_idle]

\* mutex_lock returns only when no thread holds the mutex
mutex_free(lock) == lock = NoOwner

\* the calls of put_udp_session in progress
Putting(i) ==
    \E t \in UdpThreads :
        /\ callers[t].pc \in {"put", "remove", "remove_out", "put_out"}
        /\ callers[t].idx = i

\* a thread calls get_udp_sess(state, addr, port)
call_get_udp_sess(t, addr, port) ==
    /\ callers[t].pc = "idle"
    /\ callers' = [callers EXCEPT ![t] =
           [caller_idle EXCEPT !.pc = "get", !.addr = addr, !.port = port]]
    /\ UNCHANGED <<sess_stk_lock, sess_map_lock, sess_stk, sess_map, sess,
                   active_sess>>

\* a thread calls put_udp_session(state, &state->sess[idx]) for a session
\* that is connected and that no other thread is putting back
call_put_udp_session(t, idx) ==
    /\ callers[t].pc = "idle"
    /\ sess[idx].is_connected
    /\ ~Putting(idx)
    /\ callers' = [callers EXCEPT ![t] =
           [caller_idle EXCEPT !.pc = "put", !.idx = idx]]
    /\ UNCHANGED <<sess_stk_lock, sess_map_lock, sess_stk, sess_map, sess,
                   active_sess>>

\* a thread calls map_find_udp_sess(state, addr, port)
call_map_find_udp_sess(t, addr, port) ==
    /\ callers[t].pc = "idle"
    /\ callers' = [callers EXCEPT ![t] =
           [caller_idle EXCEPT !.pc = "find", !.addr = addr, !.port = port]]
    /\ UNCHANGED <<sess_stk_lock, sess_map_lock, sess_stk, sess_map, sess,
                   active_sess>>

\* get_udp_sess: mutex_lock(&state->sess_stk_lock), bt_stack_pop and, with a
\* free session, the store of the source address and port
get_udp_sess_lock(t) ==
    /\ callers[t].pc = "get"
    /\ mutex_free(sess_stk_lock)
    /\ sess_stk_lock' = t
    /\ IF sess_stk = << >>
       THEN /\ callers' = [callers EXCEPT ![t].pc = "get_out",
                                          ![t].ret = -1,
                                          ![t].err = EAGAIN]
            /\ UNCHANGED <<sess_stk, sess>>
       ELSE /\ sess_stk' = Tail(sess_stk)
            /\ sess' = [sess EXCEPT ![Head(sess_stk)].src_addr = callers[t].addr,
                                    ![Head(sess_stk)].src_port = callers[t].port]
            /\ callers' = [callers EXCEPT ![t].pc = "insert",
                                          ![t].idx = Head(sess_stk)]
    /\ UNCHANGED <<sess_map_lock, sess_map, active_sess>>

\* map_insert_udp_sess: mutex_lock(&state->sess_map_lock) and the insertion;
\* behind a used head entry a bucket is allocated, and malloc may fail
map_insert_udp_sess_lock(t) ==
    /\ callers[t].pc = "insert"
    /\ mutex_free(sess_map_lock)
    /\ sess_map_lock' = t
    /\ LET b == addr_to_bkt(callers[t].addr)
       IN  IF sess_map[b][1] = -1
           THEN /\ sess_map' = [sess_map EXCEPT
                                    ![b] = << callers[t].idx >>]
                /\ callers' = [callers EXCEPT ![t].pc = "insert_out",
                                              ![t].ret = callers[t].idx]
           ELSE \E malloc_ok \in BOOLEAN :
                   IF malloc_ok
                   THEN /\ sess_map' = [sess_map EXCEPT
                                 ![b] = Append(@, callers[t].idx)]
                        /\ callers' = [callers EXCEPT
                                 ![t].pc = "insert_out",
                                 ![t].ret = callers[t].idx]
                   ELSE /\ callers' = [callers EXCEPT
                                 ![t].pc = "insert_out", ![t].ret = -1]
                        /\ UNCHANGED sess_map
    /\ UNCHANGED <<sess_stk_lock, sess_stk, sess, active_sess>>

\* a variant of map_insert_udp_sess_out that returns with the map lock held
map_insert_udp_sess_out_held(t) ==
    /\ callers[t].pc = "insert_out"
    /\ IF callers[t].ret = -1
       THEN /\ sess_stk' = << callers[t].idx >> \o sess_stk
            /\ callers' = [callers EXCEPT ![t].pc = "get_out",
                                          ![t].err = ENOMEM]
            /\ UNCHANGED <<sess, active_sess>>
       ELSE /\ sess' = [sess EXCEPT ![callers[t].idx].is_connected = TRUE]
            /\ active_sess' = active_sess + 1
            /\ callers' = [callers EXCEPT ![t].pc = "get_out"]
            /\ UNCHANGED sess_stk
    /\ UNCHANGED <<sess_stk_lock, sess_map_lock, sess_map>>

\* map_insert_udp_sess at out: mutex_unlock(&state->sess_map_lock); then
\* get_udp_sess pushes the index back when the insertion failed, and marks
\* the session connected when it did not
map_insert_udp_sess_out(t) ==
    /\ callers[t].pc = "insert_out"
    /\ sess_map_lock' = NoOwner
    /\ IF callers[t].ret = -1
       THEN /\ sess_stk' = << callers[t].idx >> \o sess_stk
            /\ callers' = [callers EXCEPT ![t].pc = "get_out",
                                          ![t].err = ENOMEM]
            /\ UNCHANGED <<sess, active_sess>>
       ELSE /\ sess' = [sess EXCEPT ![callers[t].idx].is_connected = TRUE]
            /\ active_sess' = active_sess + 1
            /\ callers' = [callers EXCEPT ![t].pc = "get_out"]
            /\ UNCHANGED sess_stk
    /\ UNCHANGED <<sess_stk_lock, sess_map>>

\* get_udp_sess at out: mutex_unlock(&state->sess_stk_lock) and return
get_udp_sess_out(t) ==
    /\ callers[t].pc = "get_out"
    /\ sess_stk_lock' = NoOwner
    /\ callers' = [callers EXCEPT ![t] = caller_return(@)]
    /\ UNCHANGED <<sess_map_lock, sess_stk, sess_map, sess, active_sess>>

\* put_udp_session: mutex_lock(&state->sess_stk_lock) and bt_stack_push; the
\* session map is allocated
put_udp_session_lock(t) ==
    /\ callers[t].pc = "put"
    /\ mutex_free(sess_stk_lock)
    /\ sess_stk_lock' = t
    /\ sess_stk' = << callers[t].idx >> \o sess_stk
    /\ callers' = [callers EXCEPT ![t].pc = "remove"]
    /\ UNCHANGED <<sess_map_lock, sess_map, sess, active_sess>>

\* the place of session i in a chain of buckets, 0 when it is not there
chain_find(chain, i) ==
    IF \E k \in 1 .. Len(chain) : chain[k] = i
    THEN CHOOSE k \in 1 .. Len(chain) :
             /\ chain[k] = i
             /\ \A j \in 1 .. k - 1 : chain[j] # i
    ELSE 0

\* do_remove: the head entry takes over its successor or becomes empty, any
\* other entry is unlinked and freed
chain_remove(chain, k) ==
    IF k = 1
    THEN IF Len(chain) > 1 THEN Tail(chain) ELSE << -1 >>
    ELSE SubSeq(chain, 1, k - 1) \o SubSeq(chain, k + 1, Len(chain))

\* remove_sess_from_bkt: mutex_lock(&state->sess_map_lock) and the removal
remove_sess_from_bkt_lock(t) ==
    /\ callers[t].pc = "remove"
    /\ mutex_free(sess_map_lock)
    /\ sess_map_lock' = t
    /\ LET b == addr_to_bkt(sess[callers[t].idx].src_addr)
           k == chain_find(sess_map[b], callers[t].idx)
       IN  IF k = 0
           THEN /\ callers' = [callers EXCEPT ![t].pc = "remove_out",
                                              ![t].ret = -ENOENT,
                                              ![t].err = ENOENT]
                /\ UNCHANGED sess_map
           ELSE /\ sess_map' = [sess_map EXCEPT ![b] = chain_remove(@, k)]
                /\ callers' = [callers EXCEPT ![t].pc = "remove_out"]
    /\ UNCHANGED <<sess_stk_lock, sess_stk, sess, active_sess>>

\* remove_sess_from_bkt at out: mutex_unlock(&state->sess_map_lock); then
\* put_udp_session resets the session
remove_sess_from_bkt_out(t) ==
    /\ callers[t].pc = "remove_out"
    /\ sess_map_lock' = NoOwner
    /\ sess' = [sess EXCEPT ![callers[t].idx] = reset_udp_session]
    /\ callers' = [callers EXCEPT ![t].pc = "put_out"]
    /\ UNCHANGED <<sess_stk_lock, sess_stk, sess_map, active_sess>>

\* put_udp_session: mutex_unlock(&state->sess_stk_lock), the decrement of
\* active_sess and return
put_udp_session_out(t) ==
    /\ callers[t].pc = "put_out"
    /\ sess_stk_lock' = NoOwner
    /\ active_sess' = active_sess - 1
    /\ callers' = [callers EXCEPT ![t] = caller_return(@)]
    /\ UNCHANGED <<sess_map_lock, sess_stk, sess_map, sess>>

\* the first session of a chain with the given source address and port, -1
\* when there is none
chain_lookup(chain, addr, port) ==
    LET hit(k) == /\ chain[k] # -1
                  /\ sess[chain[k]].src_addr = addr
                  /\ sess[chain[k]].src_port = port
    IN  IF \E k \in 1 .. Len(chain) : hit(k)
        THEN chain[CHOOSE k \in 1 .. Len(chain) :
                       hit(k) /\ \A j \in 1 .. k - 1 : ~hit(j)]
        ELSE -1

\* map_find_udp_sess: mutex_lock(&state->sess_map_lock) and the walk along
\* the chain of the bucket
map_find_udp_sess_lock(t) ==
    /\ callers[t].pc = "find"
    /\ mutex_free(sess_map_lock)
    /\ sess_map_lock' = t
    /\ callers' = [callers EXCEPT
           ![t].pc = "find_out",
           ![t].ret = chain_lookup(sess_map[addr_to_bkt(callers[t].addr)],
                                   callers[t].addr, callers[t].port)]
    /\ UNCHANGED <<sess_stk_lock, sess_stk, sess_map, sess, active_sess>>

\* map_find_udp_sess at out: mutex_unlock(&state->sess_map_lock) and return
map_find_udp_sess_out(t) ==
    /\ callers[t].pc = "find_out"
    /\ sess_map_lock' = NoOwner
    /\ callers' = [callers EXCEPT ![t] = caller_return(@)]
    /\ UNCHANGED <<sess_stk_lock, sess_stk, sess_map, sess, active_sess>>

\* what the session pool leaves alone
udp_rest == <<clients, fds_stack, clfds, stop, aborted, last, accepted, pc,
              sys, loop, uring_vars>>

\* one step of thread t inside a call of the pool
udp_run(t) ==
    \/ get_udp_sess_lock(t)
    \/ map_insert_udp_sess_lock(t)
    \/ map_insert_udp_sess_out(t)
    \/ get_udp_sess_out(t)
    \/ put_udp_session_lock(t)
    \/ remove_sess_from_bkt_lock(t)
    \/ remove_sess_from_bkt_out(t)
    \/ put_udp_session_out(t)
    \/ map_find_udp_sess_lock(t)
    \/ map_find_udp_sess_out(t)

NextUdp ==
    \E t \in UdpThreads :
        \/ \E a \in UdpAddrs : call_get_udp_sess(t, a, UdpPort)
                                  /\ UNCHANGED udp_rest
        \/ \E i \in SessIdx : call_put_udp_session(t, i)
                                  /\ UNCHANGED udp_rest
        \/ \E a \in UdpAddrs : call_map_find_udp_sess(t, a, UdpPort)
                                  /\ UNCHANGED udp_rest
        \/ get_udp_sess_lock(t) /\ UNCHANGED udp_rest
        \/ map_insert_udp_sess_lock(t) /\ UNCHANGED udp_rest
        \/ map_insert_udp_sess_out(t) /\ UNCHANGED udp_rest
        \/ get_udp_sess_out(t) /\ UNCHANGED udp_rest
        \/ put_udp_session_lock(t) /\ UNCHANGED udp_rest
        \/ remove_sess_from_bkt_lock(t) /\ UNCHANGED udp_rest
        \/ remove_sess_from_bkt_out(t) /\ UNCHANGED udp_rest
        \/ put_udp_session_out(t) /\ UNCHANGED udp_rest
        \/ map_find_udp_sess_lock(t) /\ UNCHANGED udp_rest
        \/ map_find_udp_sess_out(t) /\ UNCHANGED udp_rest

----------------------------------------------------------------------------
\* fds[0], fds[1] and fds[2] as event_loop binds them: the listen socket,
\* the TUN handle and the read end of the pipe
fds_bind(s) == << s.net_fd, s.tun_fd, s.pipe_fd[1] >>

init_state_stack ==
    push_all([sp |-> MaxConn, max_sp |-> MaxConn,
              arr |-> [k \in Slots |-> 0]], MaxConn)

Init ==
    /\ clients = [i \in Slots |-> init_client_slots(i)]
    /\ fds_stack = init_state_stack
    /\ clfds = [i \in Slots |-> [fd |-> -1, events |-> 0]]
    /\ stop = FALSE
    /\ aborted = FALSE
    /\ last = [op |-> "init", slot |-> -1, log |-> << >>]
    /\ accepted = 0
    /\ InitUring
    /\ InitUdp
    /\ pc = "serving"
    /\ sys = [clients_p |-> "alloc", arr_p |-> "alloc",
              pipe_fd |-> << 3, 4 >>, tun_fd |-> 5, net_fd |-> 6,
              open |-> 3 .. 6, retval |-> 0, log |-> << >>,
              sig_pc |-> "none"]
    /\ loop = [rv |-> 0, net |-> "none", tun |-> "none",
               cl |-> [i \in Slots |-> "none"], i |-> 0, waits |-> 0,
               pend |-> 0,
               fds |-> fds_bind(sys)]

----------------------------------------------------------------------------
(* Environment *)

\* descriptors held by the process outside the client array: stdio, the
\* pipe pair, the TUN handle and the listen socket
ReservedFds == 0 .. 6

OpenFds == ReservedFds \cup {clfds[i].fd : i \in Slots}

\* accept() returns the lowest descriptor that is not open
NewFd == CHOOSE n \in 0 .. (7 + MaxConn) :
            /\ n \notin OpenFds
            /\ \A m \in 0 .. (n - 1) : m \in OpenFds

POLLIN == 1

----------------------------------------------------------------------------
(* accept_conn *)

accept_install(client, rv) ==
    [client EXCEPT !.is_used = TRUE, !.is_conn = TRUE, !.is_auth = FALSE,
                   !.ctstate = CT_NEW, !.cli_fd = rv, !.err_c = 0,
                   !.recv_c = 0, !.recv_s = 0, !.username = << 95 >>]

accept_conn(maxacc) ==
    /\ ~aborted
    /\ accepted < maxacc
    /\ \E res \in {"eagain", "error", "conn"}, ntop_ok \in BOOLEAN :
        LET rv == NewFd
            p  == pop_fds(fds_stack)
        IN
        IF res # "conn" THEN
            /\ last' = [op |-> "accept_conn", slot |-> -1,
                        log |-> << [k |-> "accept", ret |-> -1, how |-> res] >>]
            /\ UNCHANGED <<clients, fds_stack, clfds, stop, aborted>>
        ELSE IF ~ntop_ok THEN
            /\ last' = [op |-> "accept_conn", slot |-> -1,
                        log |-> << [k |-> "accept", ret |-> rv, how |-> res],
                                   [k |-> "close", fd |-> rv] >>]
            /\ UNCHANGED <<clients, fds_stack, clfds, stop, aborted>>
        ELSE IF ~pop_fds_pre(fds_stack) THEN
            /\ aborted' = TRUE
            /\ last' = [op |-> "accept_conn", slot |-> -1,
                        log |-> << [k |-> "accept", ret |-> rv, how |-> res],
                                   [k |-> "abort"] >>]
            /\ UNCHANGED <<clients, fds_stack, clfds, stop>>
        ELSE IF p.val = -1 THEN
            /\ last' = [op |-> "accept_conn", slot |-> -1,
                        log |-> << [k |-> "accept", ret |-> rv, how |-> res],
                                   [k |-> "pop", val |-> -1],
                                   [k |-> "close", fd |-> rv] >>]
            /\ UNCHANGED <<clients, fds_stack, clfds, stop, aborted>>
        ELSE
            /\ fds_stack' = p.stk
            /\ clfds' = [clfds EXCEPT ![p.val] = [fd |-> rv, events |-> POLLIN]]
            /\ clients' = [clients EXCEPT ![p.val] = accept_install(@, rv)]
            /\ aborted' = (clients[p.val].arr_idx # p.val)
            /\ last' = [op |-> "accept_conn", slot |-> p.val,
                        log |-> << [k |-> "accept", ret |-> rv, how |-> res],
                                   [k |-> "pop", val |-> p.val] >>]
            /\ UNCHANGED stop
    /\ accepted' = IF last'.slot >= 0 THEN accepted + 1 ELSE accepted

----------------------------------------------------------------------------
(* Outbound packets *)

\* the bytes of a server packet: type, pad, length in network order, payload
srv_pkt_bytes(type, length, payload) == << type, 0 >> \o htons(length) \o payload

BannerPayload == << 0, 0, 1, 0, 0, 1, 0, 0, 1 >>

\* the interface assignment the Auth Adapter stores in the AUTH_OK payload
IfacePayload == [k \in 1 .. SIZEOF_srv_auth_ok |-> 1]

\* what send() may return for a request of n bytes: an error, a short
\* count, the full count
SendRets(n) == {-1, 1, n}

\* send_to_client: the client after the call, the value returned, the call
send_to_client(client, slot, data, send_ret) ==
    [cl  |-> IF send_ret < 0
             THEN [client EXCEPT !.err_c = U8(@ + 1)]
             ELSE [client EXCEPT !.send_c = @ + 1],
     ret |-> IF send_ret < 0 THEN -1 ELSE send_ret,
     ev  |-> [k |-> "send", slot |-> slot, fd |-> client.cli_fd,
              data |-> data, ret |-> send_ret]]

\* a banner of two version triples
send_server_banner_two(client, slot, send_ret) ==
    send_to_client(client, slot,
        BufRead(srv_pkt_bytes(SRV_PKT_BANNER, 6, << 0, 0, 1, 0, 0, 1 >>),
                0, SRV_PKT_MIN_RSIZ + 6),
        send_ret)

send_server_banner(client, slot, send_ret) ==
    send_to_client(client, slot,
        BufRead(srv_pkt_bytes(SRV_PKT_BANNER, SIZEOF_srv_banner, BannerPayload),
                0, SRV_PKT_MIN_RSIZ + SIZEOF_srv_banner),
        send_ret)

send_auth_ok(client, slot, send_ret) ==
    send_to_client(client, slot,
        BufRead(srv_pkt_bytes(SRV_PKT_AUTH_OK, SIZEOF_srv_auth_ok, IfacePayload),
                0, SRV_PKT_MIN_RSIZ + SIZEOF_srv_auth_ok),
        send_ret)

\* the payload area still holds what the adapter or an earlier send left
\* there; only the header is sent
send_auth_reject(client, slot, send_ret) ==
    send_to_client(client, slot,
        BufRead(srv_pkt_bytes(SRV_PKT_AUTH_REJECT, 0, << >>),
                0, SRV_PKT_MIN_RSIZ),
        send_ret)

----------------------------------------------------------------------------
(* handle_iface_read *)

\* datagrams the TUN device delivers
TunReads == { << 69 >>, << 69, 7 >> }
TunReadsB == { << 69 >> }

\* a broadcast to every connected client
bcast_target_used(client) == client.is_used

\* the recipients of a broadcast
bcast_target(client) == client.ctstate = CT_AUTHENTICATED

\* while (max_conn--): slots max_conn-1 down to 0
bcast_sent(st, i, r) ==
    [cls |-> [st.cls EXCEPT ![i] = r.cl], log |-> Append(st.log, r.ev)]

\* a broadcast that walks the slots from 0 upwards
RECURSIVE bcast_up(_, _, _, _)
bcast_up_at(st, i, data, rets) ==
    IF bcast_target(st.cls[i])
    THEN bcast_sent(st, i, send_to_client(st.cls[i], i, data, rets[i]))
    ELSE st

bcast_up(st, n, data, rets) ==
    IF n = 0 THEN st
    ELSE bcast_up_at(bcast_up(st, n - 1, data, rets), n - 1, data, rets)

RECURSIVE bcast(_, _, _, _)
bcast(st, n, data, rets) ==
    IF n = 0 THEN st
    ELSE IF bcast_target(st.cls[n - 1])
    THEN bcast(bcast_sent(st, n - 1,
                          send_to_client(st.cls[n - 1], n - 1, data, rets[n - 1])),
               n - 1, data, rets)
    ELSE bcast(st, n - 1, data, rets)

iface_pkt(dgram) ==
    BufRead(srv_pkt_bytes(SRV_PKT_DATA, U16(Len(dgram)), dgram),
            0, SRV_PKT_MIN_RSIZ + U16(Len(dgram)))

\* a failed read that is passed over whatever the error
read_failed_ignored(how, stp) == stp

\* the stop flag after read() failed: EAGAIN returns at once, any other
\* error stops the server
read_failed_stop(how, stp) == IF how = "eagain" THEN stp ELSE TRUE

handle_iface_read(dgrams, errcap) ==
    /\ ~aborted
    /\ \/ \E how \in {"eagain", "error"} :
          /\ stop' = read_failed_stop(how, stop)
          /\ last' = [op |-> "handle_iface_read", slot |-> -1,
                      log |-> << [k |-> "read", ret |-> -1, how |-> how] >>]
          /\ UNCHANGED <<clients, fds_stack, clfds, aborted>>
       \/ \E dgram \in dgrams :
          \E rets \in [Slots -> SendRets(SRV_PKT_MIN_RSIZ + Len(dgram))] :
            /\ Len(dgram) <= TUN_READ_SIZE
            /\ \A i \in Slots :
                  IF bcast_target(clients[i])
                  THEN /\ rets[i] < 0 => clients[i].err_c < errcap
                       /\ rets[i] >= 0 => clients[i].send_c < MaxSendC
                  ELSE rets[i] = SRV_PKT_MIN_RSIZ + Len(dgram)
            /\ LET r == bcast([cls |-> clients,
                               log |-> << [k |-> "read", ret |-> Len(dgram),
                                           how |-> "data", data |-> dgram] >>],
                              MaxConn, iface_pkt(dgram), rets)
               IN  /\ clients' = r.cls
                   /\ last' = [op |-> "handle_iface_read", slot |-> -1,
                               log |-> r.log]
            /\ UNCHANGED <<fds_stack, clfds, stop, aborted>>
    /\ UNCHANGED accepted

----------------------------------------------------------------------------
(* handle_client *)

(* The handler works on a context h: cl is the client record, recv_s the  *)
(* local copy of the fill level, fd the descriptor of the poll entry, stk *)
(* the free stack, log the calls made so far, rets the results of the     *)
(* send() calls still to come, auth the answer of the Auth Adapter, ab    *)
(* whether an assertion has failed.                                       *)

SendStatus == {"fail", "short", "full"}
SendRet(status, n) == CASE status = "fail"  -> -1
                        [] status = "short" -> 1
                        [] OTHER            -> n
MaxSends == 3

Emit(h, ev) == [h EXCEPT !.log = Append(@, ev)]

\* the context after a send whose outcome is r
SendDone(h, r) ==
    [h |-> [h EXCEPT !.cl = r.cl, !.log = Append(@, r.ev), !.rets = Tail(@)],
     ret |-> r.ret]

\* what the next send() of n bytes returns
NextSendRet(h, n) == SendRet(Head(h.rets), n)

\* a reset that leaves the counters of the connection standing
clear_disconnect_keep_counts(client) ==
    [client EXCEPT !.is_used = FALSE, !.is_conn = FALSE, !.is_auth = FALSE,
                   !.recv_s = 0, !.cli_fd = -1, !.ctstate = CT_DISCONNECTED]

\* a reset that leaves the authentication flag as it is
clear_disconnect_keep_auth(client) ==
    [client EXCEPT !.is_used = FALSE, !.is_conn = FALSE, !.recv_s = 0,
                   !.recv_c = 0, !.send_c = 0, !.cli_fd = -1,
                   !.ctstate = CT_DISCONNECTED]

clear_disconnect(client) ==
    [client EXCEPT !.is_used = FALSE, !.is_conn = FALSE, !.is_auth = FALSE,
                   !.recv_s = 0, !.recv_c = 0, !.send_c = 0, !.cli_fd = -1,
                   !.ctstate = CT_DISCONNECTED]

out_save_recv_s(h) == [h EXCEPT !.cl.recv_s = h.recv_s]

\* a termination that leaves the descriptor in the poll entry
close_poll_stale(h) == Emit(h, [k |-> "pollfd", fd |-> -1])

\* the four steps of out_close_conn
close_fd(h) == Emit(h, [k |-> "close", fd |-> h.fd])

close_poll(h) == Emit([h EXCEPT !.fd = -1], [k |-> "pollfd", fd |-> -1])

close_clear(h) ==
    Emit([h EXCEPT !.cl = clear_disconnect(h.cl)],
         [k |-> "clear", from |-> h.cl.ctstate])

\* a termination that forgets the free stack
close_push_skip(h) == h

close_push(h) ==
    IF push_fds_pre(h.stk)
    THEN Emit([h EXCEPT !.stk = push_fds(h.stk, h.cl.arr_idx)],
              [k |-> "push", val |-> h.cl.arr_idx])
    ELSE Emit([h EXCEPT !.ab = TRUE], [k |-> "abort"])

\* a termination that recycles the index before the record is reset
out_close_conn_push_first(h) ==
    close_clear(close_push(close_poll(close_fd(h))))

out_close_conn(h) == close_push(close_clear(close_poll(close_fd(h))))

\* client->err_c++ >= MAX_ERR_C
err_budget_hit(err_c) == err_c >= MAX_ERR_C

\* a charge that terminates the connection whatever the count
err_c_charged_close(h, old) == out_close_conn(h)

err_c_charged(h, old) ==
    IF err_budget_hit(old) THEN out_close_conn(h) ELSE h

out_err_c(h) ==
    err_c_charged(Emit([h EXCEPT !.cl.recv_s = 0, !.cl.err_c = U8(@ + 1)],
                       [k |-> "err_c", old |-> h.cl.err_c]),
                  h.cl.err_c)

\* offsets of the credentials in the receive buffer
AuthUserOff == CLI_PKT_MIN_RSIZ
AuthPassOff == CLI_PKT_MIN_RSIZ + SIZEOF_auth_username

\* the last byte of the username and of the password is set to NUL
auth_terminate(buf) ==
    BufWrite(BufWrite(buf, AuthUserOff + SIZEOF_auth_username - 1, << 0 >>),
             AuthPassOff + SIZEOF_auth_password - 1, << 0 >>)

\* the username is copied to the client record and the adapter is asked
auth_ask(h, buf) ==
    Emit([h EXCEPT !.cl.recv_buf = buf,
                   !.cl.username = CStr(buf, AuthUserOff, 254)],
         [k |-> "auth", user |-> CStr(buf, AuthUserOff, SIZEOF_auth_username),
          pass |-> CStr(buf, AuthPassOff, SIZEOF_auth_password),
          ok |-> h.auth])

\* a rejection that sends nothing
auth_fail_silent(h, slot) == [h |-> h, ret |-> FALSE]

auth_fail(h, slot) ==
    [h |-> SendDone(h, send_auth_reject(h.cl, slot,
                                        NextSendRet(h, SRV_PKT_MIN_RSIZ))).h,
     ret |-> FALSE]

\* an accepted client that is not marked authenticated
auth_ok_sent_unmarked(r, slot) ==
    IF r.ret > 0 THEN [h |-> r.h, ret |-> TRUE] ELSE auth_fail(r.h, slot)

auth_ok_sent(r, slot) ==
    IF r.ret > 0
    THEN [h |-> Emit([r.h EXCEPT !.cl.is_auth = TRUE,
                                 !.cl.ctstate = CT_AUTHENTICATED],
                     [k |-> "ctstate", from |-> r.h.cl.ctstate,
                      to |-> CT_AUTHENTICATED]),
          ret |-> TRUE]
    ELSE auth_fail(r.h, slot)

auth_answer(h, slot) ==
    IF h.auth
    THEN auth_ok_sent(
             SendDone(h, send_auth_ok(h.cl, slot,
                          NextSendRet(h, SRV_PKT_MIN_RSIZ + SIZEOF_srv_auth_ok))),
             slot)
    ELSE auth_fail(h, slot)

\* handle_auth: the context after the call and the value returned
handle_auth(h, slot) ==
    auth_answer(auth_ask(h, auth_terminate(h.cl.recv_buf)), slot)

handle_iface_write(h, fdata_len) ==
    Emit(h, [k |-> "tun_write",
             data |-> BufRead(h.cl.recv_buf, CLI_PKT_MIN_RSIZ, fdata_len)])

(* The cases of the switch: the context afterwards and where control goes *)
(* ("break" leaves the switch).                                           *)

Goto(r, yes, no) == [h |-> r.h, next |-> IF r.ret THEN yes ELSE no]

\* a greeting that is sent twice
banner_sent_twice(h, slot) ==
    SendDone(SendDone(h, send_server_banner(h.cl, slot,
                    NextSendRet(h, SRV_PKT_MIN_RSIZ + SIZEOF_srv_banner))).h,
             send_server_banner(h.cl, slot, SRV_PKT_MIN_RSIZ + SIZEOF_srv_banner))

banner_sent(h, slot) ==
    SendDone(h, send_server_banner(h.cl, slot,
                    NextSendRet(h, SRV_PKT_MIN_RSIZ + SIZEOF_srv_banner)))

hello_sent(r) == [h |-> r.h, next |-> IF r.ret > 0 THEN "break" ELSE "close"]

\* a HELLO that restarts the handshake in any state
case_HELLO_restart(h, slot) ==
    hello_sent(banner_sent(Emit([h EXCEPT !.cl.ctstate = CT_ESTABLISHED],
                                [k |-> "ctstate", from |-> h.cl.ctstate,
                                 to |-> CT_ESTABLISHED]), slot))

case_HELLO(h, slot) ==
    IF h.cl.ctstate # CT_NEW THEN [h |-> h, next |-> "break"]
    ELSE hello_sent(banner_sent(Emit([h EXCEPT !.cl.ctstate = CT_ESTABLISHED],
                                     [k |-> "ctstate", from |-> h.cl.ctstate,
                                      to |-> CT_ESTABLISHED]), slot))

\* AUTH accepted without HELLO
case_AUTH_nohello(h, slot) ==
    IF h.cl.is_auth THEN [h |-> h, next |-> "break"]
    ELSE Goto(handle_auth(h, slot), "break", "close")

case_AUTH(h, slot) ==
    IF h.cl.ctstate = CT_NEW THEN [h |-> h, next |-> "close"]
    ELSE IF h.cl.is_auth THEN [h |-> h, next |-> "break"]
    ELSE Goto(handle_auth(h, slot), "break", "close")

case_DATA(h, fdata_len) ==
    IF h.cl.ctstate # CT_AUTHENTICATED THEN [h |-> h, next |-> "close"]
    ELSE [h |-> handle_iface_write(h, fdata_len), next |-> "break"]

case_CLOSE(h) == [h |-> h, next |-> "close"]

case_default(h) ==
    [h |-> h, next |-> IF ~h.cl.is_auth THEN "close" ELSE "err_c"]

switch(h, slot, type, fdata_len) ==
    CASE type = CLI_PKT_HELLO -> case_HELLO(h, slot)
      [] type = CLI_PKT_AUTH  -> case_AUTH(h, slot)
      [] type = CLI_PKT_DATA  -> case_DATA(h, fdata_len)
      [] type = CLI_PKT_CLOSE -> case_CLOSE(h)
      [] OTHER                -> case_default(h)

\* the tail behind the packet at the head is moved to the head
compact(h, cur_valid_size, copy_size) ==
    [h EXCEPT !.cl.recv_buf = memmove(@, cur_valid_size, copy_size),
              !.recv_s = copy_size]

\* the packet at the head of the buffer as it is handed to the switch
frame_event(h, fdata_len) ==
    [k |-> "frame", type |-> BufAt(h.cl.recv_buf, 0), len |-> fdata_len,
     st |-> h.cl.ctstate, is_auth |-> h.cl.is_auth]

RECURSIVE back_chk(_, _)

\* after the switch: r is what the case left
after_switch(r, slot, fdata_len, cdata_len) ==
    IF r.next = "close" THEN out_close_conn(r.h)
    ELSE IF r.next = "err_c" THEN out_err_c(r.h)
    ELSE IF cdata_len > fdata_len
    THEN back_chk(compact(r.h, CLI_PKT_MIN_RSIZ + fdata_len,
                          r.h.recv_s - (CLI_PKT_MIN_RSIZ + fdata_len)), slot)
    ELSE out_save_recv_s([r.h EXCEPT !.recv_s = 0])

\* a length test that lets any declared length through
chk_len_any(h, slot, fdata_len, cdata_len) ==
    IF cdata_len < fdata_len THEN out_save_recv_s(h)
    ELSE after_switch(switch(Emit(h, frame_event(h, fdata_len)), slot,
                             BufAt(h.cl.recv_buf, 0), fdata_len),
                      slot, fdata_len, cdata_len)

chk_len(h, slot, fdata_len, cdata_len) ==
    IF fdata_len > CLI_PKT_DATA_SIZ THEN out_err_c(h)
    ELSE IF cdata_len < fdata_len THEN out_save_recv_s(h)
    ELSE after_switch(switch(Emit(h, frame_event(h, fdata_len)), slot,
                             BufAt(h.cl.recv_buf, 0), fdata_len),
                      slot, fdata_len, cdata_len)

back_chk(h, slot) ==
    IF h.recv_s < CLI_PKT_MIN_RSIZ THEN out_save_recv_s(h)
    ELSE chk_len(h, slot,
                 ntohs(BufAt(h.cl.recv_buf, 2), BufAt(h.cl.recv_buf, 3)),
                 U16(h.recv_s - CLI_PKT_MIN_RSIZ))

\* what recv() may deliver
Pkt(type, payload) == << type, 0 >> \o htons(Len(payload)) \o payload

PktHello == Pkt(CLI_PKT_HELLO, << >>)
PktAuth == Pkt(CLI_PKT_AUTH, << 97 >>)
\* an AUTH packet of full size: 64 bytes of username, 64 of password
Credentials == [k \in 1 .. (SIZEOF_auth_username + SIZEOF_auth_password) |->
                   IF k = 1 THEN 98
                   ELSE IF k = SIZEOF_auth_username + 1 THEN 112 ELSE 0]
PktAuthFull == Pkt(CLI_PKT_AUTH, Credentials)
\* an AUTH packet that ends behind the NUL of a one-letter password
PktAuthCompact ==
    Pkt(CLI_PKT_AUTH, SubSeq(Credentials, 1, SIZEOF_auth_username + 3))
\* a DATA packet of 57 bytes
PktDataLong == Pkt(CLI_PKT_DATA, [k \in 1 .. 57 |-> 69])
PktData == Pkt(CLI_PKT_DATA, << 69, 9 >>)
PktClose == Pkt(CLI_PKT_CLOSE, << >>)
PktAck == Pkt(CLI_PKT_IFACE_ACK, << >>)
PktCorrupt == << CLI_PKT_DATA, 0, 16, 1 >>

Packets == { PktHello, PktAuth, PktData, PktClose, PktAck, PktCorrupt }

\* a recv() result: how it ended and the bytes it stored
Recv(how, chunk) == [how |-> how, chunk |-> chunk]

Recvs == { Recv("data", p) : p \in Packets }
         \cup { Recv("error", << >>), Recv("eof", << >>) }

RecvsB == { Recv("data", PktHello \o PktAuth), Recv("data", PktCorrupt),
            Recv("error", << >>) }

\* a byte stream cut at arbitrary places: packets in one piece, several
\* packets in one piece, one packet in two pieces
RecvsS == Recvs
          \cup { Recv("eagain", << >>),
                 Recv("data", PktAuthFull),
                 Recv("data", PktAuthCompact \o PktDataLong),
                 Recv("data", PktHello \o PktAuth \o PktData),
                 Recv("data", PktData \o PktClose),
                 Recv("data", PktData \o PktData \o SubSeq(PktData, 1, 5)),
                 Recv("data", PktAck \o PktData),
                 Recv("data", SubSeq(PktData, 1, 5)),
                 Recv("data", SubSeq(PktData, 6, 6)),
                 Recv("data", SubSeq(PktAuth, 1, 2)),
                 Recv("data", SubSeq(PktAuth, 3, 5)) }

\* a handler that charges the end of the stream like a failed recv()
after_recv_eof_charged(h, slot, rcv) ==
    CASE rcv.how = "eagain" -> h
      [] rcv.how \in {"error", "eof"} -> out_err_c(h)
      [] OTHER ->
         back_chk([h EXCEPT !.cl.recv_buf = BufWrite(@, h.recv_s, rcv.chunk),
                            !.recv_s = h.recv_s + Len(rcv.chunk)], slot)

\* after recv(): h is the context with recv_c counted
after_recv(h, slot, rcv) ==
    CASE rcv.how = "eagain" -> h
      [] rcv.how = "error"  -> out_err_c(h)
      [] rcv.how = "eof"    -> out_close_conn(h)
      [] OTHER ->
         back_chk([h EXCEPT !.cl.recv_buf = BufWrite(@, h.recv_s, rcv.chunk),
                            !.recv_s = h.recv_s + Len(rcv.chunk)], slot)

\* the context of a handler that starts on client record cl when recv()
\* returns rcv
handle_client_ctx(cl, fd, stk, rcv, rets, auth) ==
    [cl |-> [cl EXCEPT !.recv_c = @ + 1],
     recv_s |-> cl.recv_s,
     fd |-> fd, stk |-> stk, rets |-> rets,
     auth |-> auth, ab |-> FALSE,
     log |-> << [k |-> "recv", how |-> rcv.how, fd |-> cl.cli_fd,
                 pending |-> BufRead(cl.recv_buf, 0, cl.recv_s),
                 data |-> rcv.chunk] >>]

\* handle_client on slot i when recv() returns rcv
handle_client_run(i, rcv, rets, auth) ==
    after_recv(handle_client_ctx(clients[i], clfds[i].fd, fds_stack,
                                 rcv, rets, auth),
               i, rcv)

AllFull == [k \in 1 .. MaxSends |-> "full"]

\* The results the environment has to supply for one call, found from a run
\* in which every send succeeds and the adapter accepts.  No send in that
\* run: no result is consulted; no adapter call: at most the first send is.
EnvChoices(probe) ==
    IF Len(probe.rets) = MaxSends
    THEN { [rets |-> AllFull, auth |-> TRUE] }
    ELSE IF \A e \in 1 .. Len(probe.log) : probe.log[e].k # "auth"
    THEN { [rets |-> [AllFull EXCEPT ![1] = s], auth |-> TRUE] : s \in SendStatus }
    ELSE { [rets |-> r, auth |-> a] : r \in [1 .. MaxSends -> SendStatus],
                                      a \in BOOLEAN }

handle_client_apply(i, h) ==
    \* results that were not consumed are left at "full"
    /\ \A k \in 1 .. Len(h.rets) : h.rets[k] = "full"
    /\ clients' = [clients EXCEPT ![i] = h.cl]
    /\ clfds' = [clfds EXCEPT ![i].fd = h.fd]
    /\ fds_stack' = h.stk
    /\ aborted' = h.ab
    /\ last' = [op |-> "handle_client", slot |-> i, log |-> h.log]
    /\ UNCHANGED <<stop, accepted>>

handle_client(i, recvs, recvcap) ==
    /\ ~aborted
    /\ clfds[i].fd # -1
    /\ clients[i].recv_c < recvcap
    /\ \E rcv \in recvs :
        /\ Len(rcv.chunk) <= CLI_PKT_RSIZE - clients[i].recv_s
        /\ \E env \in EnvChoices(handle_client_run(i, rcv, AllFull, TRUE)) :
             handle_client_apply(i, handle_client_run(i, rcv, env.rets, env.auth))

Next ==
    \/ ~stop /\ accept_conn(MaxAccept) /\ UNCHANGED <<pc, sys, loop, uring_vars, udp_vars>>
    \/ ~stop /\ handle_iface_read(TunReads, MaxErrC) /\ UNCHANGED <<pc, sys, loop, uring_vars, udp_vars>>
    \/ /\ \E i \in Slots : handle_client(i, Recvs, MaxRecvC)
       /\ UNCHANGED <<pc, sys, loop, uring_vars, udp_vars>>

Spec == Init /\ [][Next]_vars

\* (the handlers run in any order while the event loop is serving; the loop
\* calls accept_conn and handle_iface_read only before it has seen stop)

\* the error budget: one connection, many errors, few packets
NextBudget ==
    \/ ~stop /\ accept_conn(MaxAcceptB) /\ UNCHANGED <<pc, sys, loop, uring_vars, udp_vars>>
    \/ ~stop /\ handle_iface_read(TunReadsB, MaxErrSeen) /\ UNCHANGED <<pc, sys, loop, uring_vars, udp_vars>>
    \/ /\ \E i \in Slots : handle_client(i, RecvsB, MaxRecvB)
       /\ UNCHANGED <<pc, sys, loop, uring_vars, udp_vars>>

SpecBudget == Init /\ [][NextBudget]_vars

\* one connection fed with a byte stream
NextStream ==
    \/ ~stop /\ accept_conn(MaxAcceptS) /\ UNCHANGED <<pc, sys, loop, uring_vars, udp_vars>>
    \/ ~stop /\ handle_iface_read(TunReadsB, MaxErrC) /\ UNCHANGED <<pc, sys, loop, uring_vars, udp_vars>>
    \/ /\ \E i \in Slots : handle_client(i, RecvsS, MaxRecvS)
       /\ UNCHANGED <<pc, sys, loop, uring_vars, udp_vars>>

SpecStream == Init /\ [][NextStream]_vars

\* more connections than slots: clients that say HELLO or go away
RecvsA == { Recv("data", PktHello), Recv("eof", << >>) }

NextAccept ==
    \/ ~stop /\ accept_conn(MaxAcceptA) /\ UNCHANGED <<pc, sys, loop, uring_vars, udp_vars>>
    \/ ~stop /\ handle_iface_read(TunReadsB, MaxErrC) /\ UNCHANGED <<pc, sys, loop, uring_vars, udp_vars>>
    \/ /\ \E i \in Slots : handle_client(i, RecvsA, MaxRecvA)
       /\ UNCHANGED <<pc, sys, loop, uring_vars, udp_vars>>

SpecAccept == Init /\ [][NextAccept]_vars

\* one connection to which sends keep failing: err_c through its 8 bits
MaxErrW == 256
MaxRecvW == 1

NextWrap ==
    \/ ~stop /\ accept_conn(MaxAcceptB) /\ UNCHANGED <<pc, sys, loop, uring_vars, udp_vars>>
    \/ ~stop /\ handle_iface_read(TunReadsB, MaxErrW) /\ UNCHANGED <<pc, sys, loop, uring_vars, udp_vars>>
    \/ /\ \E i \in Slots : handle_client(i, RecvsB, MaxRecvW)
       /\ UNCHANGED <<pc, sys, loop, uring_vars, udp_vars>>

SpecWrap == Init /\ [][NextWrap]_vars

\* receive buffers filled to the brim: one connection, packets of the
\* largest size in one piece, one byte short, and behind a small one
MaxRecvF == 4

PktDataMax == Pkt(CLI_PKT_DATA, [k \in 1 .. CLI_PKT_DATA_SIZ |-> 69])

RecvsF == { Recv("data", PktHello), Recv("data", PktAuth),
            Recv("data", PktDataMax),
            Recv("data", SubSeq(PktDataMax, 1, CLI_PKT_RSIZE - 1)),
            Recv("data", << 69 >>),
            Recv("data", PktData \o SubSeq(PktDataMax, 1, CLI_PKT_RSIZE - 6)),
            Recv("data", PktCorrupt \o SubSeq(PktDataMax, 5, CLI_PKT_RSIZE)),
            Recv("eagain", << >>), Recv("error", << >>) }

NextFill ==
    \/ ~stop /\ accept_conn(MaxAcceptS) /\ UNCHANGED <<pc, sys, loop, uring_vars, udp_vars>>
    \/ ~stop /\ handle_iface_read(TunReadsB, MaxErrC) /\ UNCHANGED <<pc, sys, loop, uring_vars, udp_vars>>
    \/ \E i \in Slots : handle_client(i, RecvsF, MaxRecvF)
                           /\ UNCHANGED <<pc, sys, loop, uring_vars, udp_vars>>

SpecFill == Init /\ [][NextFill]_vars

\* the io_uring server with NThreads threads
SpecUring == Init /\ [][NextUring]_vars

\* the session pool under NUdpThreads threads
SpecUdp == Init /\ [][NextUdp]_vars

\* every thread inside a call keeps running, and a thread waiting for a
\* mutex that is released again and again obtains it in the end
SpecUdpFair ==
    SpecUdp /\ \A t \in UdpThreads : SF_vars(udp_run(t) /\ UNCHANGED udp_rest)

----------------------------------------------------------------------------
(* The server process: bring-up, event loop, teardown *)

MaxAcceptL == 2
MaxRecvL == 2

\* errno values a failed system call may leave
Errnos == {12, 24, 98}

\* the state after memset(&state, 0, sizeof(state)) and before init_state
InitBoot ==
    /\ clients = [i \in Slots |-> init_client_slots(i)]
    /\ fds_stack = init_state_stack
    /\ clfds = [i \in Slots |-> [fd |-> -1, events |-> 0]]
    /\ stop = FALSE
    /\ aborted = FALSE
    /\ last = [op |-> "init", slot |-> -1, log |-> << >>]
    /\ accepted = 0
    /\ InitUring
    /\ InitUdp
    /\ pc = "init_state"
    /\ sys = [clients_p |-> "null", arr_p |-> "null",
              pipe_fd |-> << 0, 0 >>, tun_fd |-> 0, net_fd |-> 0,
              open |-> {}, retval |-> 0, log |-> << >>, sig_pc |-> "none"]
    /\ loop = [rv |-> 0, net |-> "none", tun |-> "none",
               cl |-> [i \in Slots |-> "none"], i |-> 0, waits |-> 0,
               pend |-> 0,
               fds |-> << 0, 0, 0 >>]

SysLog(s, ev) == [s EXCEPT !.log = Append(@, ev)]

\* a failed bring-up step: the value returned goes to `out`
Fail(s, ret) == [s EXCEPT !.retval = ret]

\* the descriptor the next open gets: the lowest one not in use
LowFd(s) == CHOOSE n \in 3 .. 7 : n \notin s.open /\ \A m \in 3 .. (n - 1) : m \in s.open

init_state ==
    /\ pc = "init_state"
    /\ \/ /\ clients' = [i \in Slots |-> init_client_slots(i)]
          /\ fds_stack' = init_state_stack
          /\ stop' = FALSE
          /\ sys' = SysLog(SysLog([sys EXCEPT !.clients_p = "alloc",
                                              !.arr_p = "alloc",
                                              !.net_fd = -1, !.tun_fd = -1,
                                              !.pipe_fd = << -1, -1 >>],
                                  [k |-> "alloc", what |-> "clients"]),
                           [k |-> "alloc", what |-> "stack"])
          /\ pc' = "init_pipe"
       \/ \* calloc of the client array fails
          /\ sys' = Fail(SysLog(sys, [k |-> "fail", what |-> "clients"]), -12)
          /\ pc' = "destroy_state"
          /\ UNCHANGED <<clients, fds_stack, stop>>
       \/ \* calloc of the stack fails: the client array is freed again
          /\ sys' = Fail(SysLog(SysLog(SysLog(sys,
                                   [k |-> "alloc", what |-> "clients"]),
                                   [k |-> "fail", what |-> "stack"]),
                                   [k |-> "free", what |-> "clients",
                                    p |-> "alloc"]), -12)
          /\ pc' = "destroy_state"
          /\ UNCHANGED <<clients, fds_stack, stop>>
    /\ UNCHANGED <<clfds, aborted, last, accepted, loop>>

init_pipe ==
    /\ pc = "init_pipe"
    /\ \/ /\ sys' = SysLog([sys EXCEPT !.pipe_fd = << 3, 4 >>,
                                       !.open = @ \cup {3, 4}],
                           [k |-> "open", what |-> "pipe", fd |-> 3])
          /\ pc' = "init_iface"
       \/ \E e \in Errnos :
          /\ sys' = Fail(SysLog(sys, [k |-> "fail", what |-> "pipe"]), -e)
          /\ pc' = "destroy_state"
    /\ UNCHANGED <<clients, fds_stack, clfds, stop, aborted, last, accepted,
                   loop>>

\* a descriptor a bring-up step opened and closed again itself
OpenedAndClosed(s, what) ==
    SysLog(SysLog(SysLog(s, [k |-> "open", what |-> what, fd |-> LowFd(s)]),
                  [k |-> "fail", what |-> what]),
           [k |-> "close", what |-> what, fd |-> LowFd(s), held |-> TRUE])

init_iface ==
    /\ pc = "init_iface"
    /\ \/ /\ sys' = SysLog([sys EXCEPT !.tun_fd = LowFd(sys),
                                       !.open = @ \cup {LowFd(sys)}],
                           [k |-> "open", what |-> "tun", fd |-> LowFd(sys)])
          /\ pc' = "init_socket"
       \/ \* tun_alloc fails
          /\ sys' = Fail(SysLog(sys, [k |-> "fail", what |-> "tun"]), -1)
          /\ pc' = "destroy_state"
       \/ \* fd_set_nonblock or raise_up_interface fails
          /\ sys' = Fail(OpenedAndClosed(sys, "tun"), -1)
          /\ pc' = "destroy_state"
    /\ UNCHANGED <<clients, fds_stack, clfds, stop, aborted, last, accepted,
                   loop>>

init_socket ==
    /\ pc = "init_socket"
    /\ \/ /\ sys' = SysLog([sys EXCEPT !.net_fd = LowFd(sys),
                                       !.open = @ \cup {LowFd(sys)}],
                           [k |-> "open", what |-> "net", fd |-> LowFd(sys)])
          /\ pc' = "event_loop"
       \/ \* socket() fails
          \E e \in Errnos :
          /\ sys' = Fail(SysLog(sys, [k |-> "fail", what |-> "net"]), -e)
          /\ pc' = "destroy_state"
       \/ \* socket_setup, bind or listen fails
          \E e \in Errnos \cup {1} :
          /\ sys' = Fail(OpenedAndClosed(sys, "net"), -e)
          /\ pc' = "destroy_state"
    /\ UNCHANGED <<clients, fds_stack, clfds, stop, aborted, last, accepted,
                   loop>>

\* event_loop up to the first pass of the loop: the poll set is allocated
\* and the client entries are disabled
event_loop_enter ==
    /\ pc = "event_loop"
    /\ \/ /\ clfds' = [i \in Slots |-> [fd |-> -1, events |-> 0]]
          /\ loop' = [rv |-> 0, net |-> "none", tun |-> "none",
                      cl |-> [i \in Slots |-> "none"], i |-> 0, waits |-> 0,
                      pend |-> 0,
                      fds |-> fds_bind(sys)]
          /\ pc' = "top"
          /\ UNCHANGED sys
       \/ \* calloc of the poll set fails
          /\ sys' = Fail(SysLog(sys, [k |-> "fail", what |-> "fds"]), -12)
          /\ pc' = "destroy_state"
          /\ UNCHANGED <<clfds, loop>>
    /\ UNCHANGED <<clients, fds_stack, stop, aborted, last, accepted>>

\* a loop that does not look at stop
event_loop_top_blind ==
    /\ pc = "top"
    /\ pc' = "poll"
    /\ UNCHANGED <<clients, fds_stack, clfds, stop, aborted, last, accepted,
                   sys, loop>>

\* the top of the loop: if (state->stop) break
event_loop_top ==
    /\ pc = "top"
    /\ \/ stop /\ pc' = "destroy_state"
       \/ ~stop /\ pc' = "poll"
    /\ UNCHANGED <<clients, fds_stack, clfds, stop, aborted, last, accepted,
                   sys, loop>>

\* what poll() may report
HasIn(ev) == ev \in {"in", "in_err"}

RecvsL == { Recv("data", PktHello), Recv("eof", << >>), Recv("error", << >>) }

\* the connections that may have arrived at the listen socket since the
\* last poll (loop.pend of them wait in its queue already)
Arrivals == 0 .. (MaxAcceptL - accepted - loop.pend)

\* the listen socket is readable when a connection waits in its queue
PollNet(pend) == {"err"} \cup (IF pend > 0 THEN {"in"} ELSE {"none"})
PollTun == {"none", "in", "err"}
PollCl(i) ==
    IF clfds[i].fd = -1 THEN {"none"}
    ELSE {"none", "err"}
         \cup (IF clients[i].recv_c < MaxRecvL THEN {"in", "in_err"} ELSE {})

\* the number of entries with an event
PollCount(net, tun, cl) ==
    (IF net = "none" THEN 0 ELSE 1) + (IF tun = "none" THEN 0 ELSE 1)
        + Cardinality({i \in Slots : cl[i] # "none"})

\* one poll(): it times out, is interrupted by a signal handler, fails, or
\* reports events
event_loop_poll ==
    /\ pc = "poll"
    /\ \/ /\ loop.pend = 0
          /\ pc' = "top"
          /\ loop' = [loop EXCEPT !.waits = IF stop THEN @ + 1 ELSE @]
          /\ UNCHANGED sys
       \/ /\ stop
          /\ sys' = Fail(sys, 0)
          /\ pc' = "destroy_state"
          /\ UNCHANGED loop
       \/ \E e \in Errnos :
          /\ sys' = Fail(sys, -e)
          /\ pc' = "destroy_state"
          /\ UNCHANGED loop
       \/ \E arrived \in Arrivals, tun \in PollTun :
          \E net \in PollNet(loop.pend + arrived) :
          \E cl \in [Slots -> {"none", "in", "err", "in_err"}] :
          /\ \A i \in Slots : cl[i] \in PollCl(i)
          /\ PollCount(net, tun, cl) > 0
          /\ loop' = [rv |-> PollCount(net, tun, cl), net |-> net,
                      tun |-> tun, cl |-> cl, i |-> 0,
                      waits |-> IF stop THEN loop.waits + 1 ELSE loop.waits,
                      pend |-> loop.pend + arrived,
                      fds |-> loop.fds]
          /\ pc' = "listen"
          /\ UNCHANGED sys
    /\ UNCHANGED <<clients, fds_stack, clfds, stop, aborted, last, accepted>>

\* an accept that empties the queue of the listen socket
pending_after_drained(pend, how) == {0}

\* the connections left in the queue of the listen socket after one
\* accept(): a connection returned has left the queue, EAGAIN says that
\* the queue is empty, a failure may or may not have removed a connection
pending_after(pend, how) ==
    CASE how = "conn"   -> {pend - 1}
      [] how = "eagain" -> {0}
      [] OTHER          -> {pend - 1, pend}

\* fds[0]: the listen socket
event_loop_listen ==
    /\ pc = "listen"
    /\ \/ /\ loop.net = "none"
          /\ pc' = "tun"
          /\ UNCHANGED <<clients, fds_stack, clfds, stop, aborted, last,
                         accepted, loop>>
       \/ /\ loop.net = "in"
          /\ accept_conn(MaxAcceptL)
          /\ \E np \in pending_after(loop.pend, last'.log[1].how) :
                loop' = [loop EXCEPT !.rv = @ - 1, !.pend = np]
          /\ pc' = "tun"
       \/ /\ loop.net = "err"
          /\ pc' = "destroy_state"
          /\ UNCHANGED <<clients, fds_stack, clfds, stop, aborted, last,
                         accepted, loop>>
    /\ UNCHANGED sys

\* fds[1]: the TUN handle
event_loop_tun ==
    /\ pc = "tun"
    /\ \/ /\ ~(loop.rv > 0 /\ loop.tun # "none")
          /\ pc' = "clients"
          /\ UNCHANGED <<clients, fds_stack, clfds, stop, aborted, last,
                         accepted, loop>>
       \/ /\ loop.rv > 0 /\ loop.tun = "in"
          /\ handle_iface_read(TunReadsB, MaxErrC)
          /\ loop' = [loop EXCEPT !.rv = @ - 1]
          /\ pc' = "clients"
       \/ /\ loop.rv > 0 /\ loop.tun = "err"
          /\ pc' = "destroy_state"
          /\ UNCHANGED <<clients, fds_stack, clfds, stop, aborted, last,
                         accepted, loop>>
    /\ UNCHANGED sys

\* one pass of the loop over the client entries
event_loop_clients ==
    /\ pc = "clients"
    /\ \/ /\ ~(loop.i < MaxConn /\ loop.rv > 0)
          /\ pc' = "top"
          /\ UNCHANGED <<clients, fds_stack, clfds, stop, aborted, last,
                         accepted, loop>>
       \/ /\ loop.i < MaxConn /\ loop.rv > 0
          /\ loop.cl[loop.i] = "none"
          /\ loop' = [loop EXCEPT !.i = @ + 1]
          /\ pc' = pc
          /\ UNCHANGED <<clients, fds_stack, clfds, stop, aborted, last,
                         accepted>>
       \/ /\ loop.i < MaxConn /\ loop.rv > 0
          /\ HasIn(loop.cl[loop.i])
          /\ handle_client(loop.i, RecvsL, MaxRecvL)
          /\ loop' = [loop EXCEPT !.i = @ + 1, !.rv = @ - 1]
          /\ pc' = pc
       \/ \* an error event alone: break
          /\ loop.i < MaxConn /\ loop.rv > 0
          /\ loop.cl[loop.i] = "err"
          /\ pc' = "top"
          /\ UNCHANGED <<clients, fds_stack, clfds, stop, aborted, last,
                         accepted, loop>>
    /\ UNCHANGED sys

\* the handler of SIGINT, SIGHUP, SIGTERM and SIGQUIT
intr_handler ==
    /\ pc \notin {"serving", "done", "crashed"}
    /\ ~stop
    /\ stop' = TRUE
    /\ sys' = [sys EXCEPT !.sig_pc = pc]
    /\ UNCHANGED <<clients, fds_stack, clfds, aborted, last, accepted, pc,
                   loop>>

(* destroy_state *)

\* close(fd) unless fd is -1; held tells whether fd was a handle the server
\* had open
close_handle(s, fd, what) ==
    IF fd = -1 THEN s
    ELSE [SysLog(s, [k |-> "close", what |-> what, fd |-> fd,
                     held |-> fd \in s.open])
             EXCEPT !.open = @ \ {fd}]

\* a teardown that closes the handles in the reverse order of bring-up
destroy_handles_reverse(s) ==
    close_handle(close_handle(close_handle(close_handle(s,
        s.net_fd, "net"), s.tun_fd, "tun"), s.pipe_fd[2], "pipe1"),
        s.pipe_fd[1], "pipe0")

destroy_handles(s) ==
    close_handle(close_handle(close_handle(close_handle(s,
        s.pipe_fd[1], "pipe0"), s.pipe_fd[2], "pipe1"), s.tun_fd, "tun"),
        s.net_fd, "net")

\* while (max_conn--): the sockets of the slots in use are closed
RECURSIVE destroy_clients(_, _, _)
destroy_clients(s, cls, n) ==
    IF n = 0 THEN s
    ELSE destroy_clients(
             IF cls[n - 1].is_used
             THEN SysLog(s, [k |-> "close", what |-> "client",
                             fd |-> cls[n - 1].cli_fd, held |-> TRUE])
             ELSE s,
             cls, n - 1)

destroy_free(s) ==
    SysLog(SysLog([s EXCEPT !.clients_p = IF @ = "alloc" THEN "freed" ELSE @,
                            !.arr_p = IF @ = "alloc" THEN "freed" ELSE @],
                  [k |-> "free", what |-> "clients", p |-> s.clients_p]),
           [k |-> "free", what |-> "stack", p |-> s.arr_p])

\* the client array is read through state->clients
destroy_read(s) == SysLog(s, [k |-> "read", what |-> "clients",
                              p |-> s.clients_p])

destroy_begin(s) == SysLog(s, [k |-> "destroy_state"])

destroy_state ==
    /\ pc = "destroy_state"
    /\ \/ /\ sys.clients_p = "alloc"
          /\ sys' = destroy_free(destroy_clients(
                        destroy_read(destroy_handles(destroy_begin(sys))),
                        clients, MaxConn))
          /\ pc' = "done"
       \/ \* state->clients is NULL: the read is undefined; the process is
          \* killed
          /\ sys.clients_p = "null"
          /\ sys' = destroy_read(destroy_handles(destroy_begin(sys)))
          /\ pc' = "crashed"
       \/ \* or the read yields whatever lies there
          /\ sys.clients_p = "null"
          /\ \E used \in [Slots -> BOOLEAN] :
                sys' = destroy_free(destroy_clients(
                           destroy_read(destroy_handles(destroy_begin(sys))),
                           [i \in Slots |-> [is_used |-> used[i],
                                             cli_fd |-> 0]],
                           MaxConn))
          /\ pc' = "done"
    /\ UNCHANGED <<clients, fds_stack, clfds, stop, aborted, last, accepted,
                   loop>>

ProcNext ==
    \/ init_state /\ UNCHANGED <<uring_vars, udp_vars>>
    \/ init_pipe /\ UNCHANGED <<uring_vars, udp_vars>>
    \/ init_iface /\ UNCHANGED <<uring_vars, udp_vars>>
    \/ init_socket /\ UNCHANGED <<uring_vars, udp_vars>>
    \/ event_loop_enter /\ UNCHANGED <<uring_vars, udp_vars>>
    \/ event_loop_top /\ UNCHANGED <<uring_vars, udp_vars>>
    \/ event_loop_poll /\ UNCHANGED <<uring_vars, udp_vars>>
    \/ event_loop_listen /\ UNCHANGED <<uring_vars, udp_vars>>
    \/ event_loop_tun /\ UNCHANGED <<uring_vars, udp_vars>>
    \/ event_loop_clients /\ UNCHANGED <<uring_vars, udp_vars>>
    \/ destroy_state /\ UNCHANGED <<uring_vars, udp_vars>>

NextLife == ProcNext \/ (intr_handler /\ UNCHANGED <<uring_vars, udp_vars>>)

SpecLife == InitBoot /\ [][NextLife]_vars

Positions == {"init_state", "init_pipe", "init_iface", "init_socket",
              "event_loop", "top", "poll", "listen", "tun", "clients",
              "destroy_state", "done", "crashed"}

Running == pc \in Positions \ {"done", "crashed"}

\* the process moves on to some position
Move == Running /\ pc' \in Positions

\* The process is sequential, every call it makes returns and the pass over
\* the client entries is bounded: the process does not stay at one position
\* for ever.  Signals come when they come.
SpecLifeFair == SpecLife /\ WF_pc(Move)

----------------------------------------------------------------------------
(* Observations the properties are stated on *)

\* the positions of the events of one kind in the log of the last handler
EvsOf(kind) == {e \in DOMAIN last.log : last.log[e].k = kind}

FreeCount == fds_stack.max_sp - fds_stack.sp
UsedSlots == {i \in Slots : clients[i].is_used}

\* The packets of a byte stream as the wire format defines them: a 4-byte
\* header (type, pad, length in network byte order) and `length` bytes of
\* payload; decoding stops at a length above the maximum and at a packet
\* that is not complete.
RECURSIVE StreamFrames(_)
StreamFrames(bytes) ==
    IF Len(bytes) < 4 THEN << >>
    ELSE IF bytes[3] * 256 + bytes[4] > 4096 THEN << >>
    ELSE IF Len(bytes) < 4 + bytes[3] * 256 + bytes[4] THEN << >>
    ELSE << [type |-> bytes[1],
             payload |-> SubSeq(bytes, 5, 4 + bytes[3] * 256 + bytes[4])] >>
         \o StreamFrames(SubSeq(bytes, 5 + bytes[3] * 256 + bytes[4], Len(bytes)))

\* the bytes the last client handler had to decode: what was pending in the
\* receive buffer and what recv() added
Input == last.log[1].pending \o last.log[1].data

\* the rank of the packet at position e among the packets of the log
FrameNo(e) == Cardinality({f \in EvsOf("frame") : f <= e})

\* slot i has been terminated by the last handler: the events from position
\* e on are the four steps of the termination and nothing else, and the slot
\* is free again
ClosedAt(e, i) ==
    /\ Len(last.log) = e + 3
    /\ last.log[e].k = "close" /\ last.log[e].fd = last.log[1].fd
    /\ last.log[e + 1].k = "pollfd"
    /\ last.log[e + 2].k = "clear"
    /\ last.log[e + 3].k = "push" /\ last.log[e + 3].val = i
    /\ ~clients[i].is_used /\ clients[i].ctstate = CT_DISCONNECTED
    /\ clfds[i].fd = -1
    /\ fds_stack.sp < fds_stack.max_sp /\ fds_stack.arr[fds_stack.sp] = i

\* the processing of a packet ended at position e - 1 of the log with the
\* slot in state st: the handler returned with the slot in that state, or
\* position e holds the next packet, met in that state, or the charge for
\* the corrupt header that follows
AfterFrame(e, st, auth) ==
    IF e > Len(last.log)
    THEN /\ clients[last.slot].is_used
         /\ clients[last.slot].ctstate = st
         /\ clients[last.slot].is_auth = auth
    ELSE \/ /\ last.log[e].k = "frame"
            /\ last.log[e].st = st
            /\ last.log[e].is_auth = auth
         \/ last.log[e].k = "err_c"

\* the packet at position e of the log had no effect
NoEffect(e) == AfterFrame(e + 1, last.log[e].st, last.log[e].is_auth)

----------------------------------------------------------------------------
(* Properties *)

\* C1: slot conservation.  Between handler invocations the number of
\* indices on the free stack plus the number of slots in use is max_conn.
C1_SlotConservation == FreeCount + Cardinality(UsedSlots) = fds_stack.max_sp

\* a connection has just been terminated while another slot is in use
C1_Witness ==
    /\ last.op = "handle_client"
    /\ EvsOf("push") # {}
    /\ Cardinality(UsedSlots) = 1
    /\ FreeCount = 1

\* C2: state-machine monotonicity.  No step takes a slot from
\* AUTHENTICATED to anything but DISCONNECTED or from ESTABLISHED to NEW, no
\* transition inside a handler goes backwards, and a slot that was not NEW
\* becomes NEW only by being accepted after it was DISCONNECTED.
C2_Step(i) ==
    /\ clients[i].ctstate = CT_AUTHENTICATED
          => clients'[i].ctstate \in {CT_AUTHENTICATED, CT_DISCONNECTED}
    /\ clients[i].ctstate = CT_ESTABLISHED => clients'[i].ctstate # CT_NEW
    /\ (clients[i].ctstate # CT_NEW /\ clients'[i].ctstate = CT_NEW)
          => /\ clients[i].ctstate = CT_DISCONNECTED
             /\ last'.op = "accept_conn" /\ last'.slot = i
    /\ \A e \in DOMAIN last'.log :
          /\ last'.log[e].k = "ctstate"
                => /\ last'.log[e].from < last'.log[e].to
                   /\ last'.log[e].from # CT_AUTHENTICATED
          /\ (last'.log[e].k = "clear" /\ last'.slot = i)
                => clients'[i].ctstate = CT_DISCONNECTED

C2_Monotonic == [][\A i \in Slots : C2_Step(i)]_vars

\* an AUTHENTICATED slot has just gone to DISCONNECTED
C2_Witness ==
    /\ last.op = "handle_client"
    /\ \E e \in EvsOf("clear") : last.log[e].from = CT_AUTHENTICATED
    /\ clients[last.slot].ctstate = CT_DISCONNECTED

\* C3: broadcast discipline.  A TUN read of n bytes is followed by exactly
\* one send to every slot that is AUTHENTICATED at that moment, of 4 + n
\* bytes: type DATA, length n, the n bytes read; no other slot is sent
\* anything.
SendsTo(log, i) == {e \in DOMAIN log : log[e].k = "send" /\ log[e].slot = i}

C3_Step ==
    (last'.op = "handle_iface_read" /\ last'.log[1].how = "data") =>
        \A i \in Slots :
            IF clients[i].ctstate = CT_AUTHENTICATED
            THEN /\ Cardinality(SendsTo(last'.log, i)) = 1
                 /\ \A e \in SendsTo(last'.log, i) :
                      /\ last'.log[e].fd = clients[i].cli_fd
                      /\ Len(last'.log[e].data) = 4 + Len(last'.log[1].data)
                      /\ last'.log[e].data[1] = SRV_PKT_DATA
                      /\ last'.log[e].data[3] * 256 + last'.log[e].data[4]
                            = Len(last'.log[1].data)
                      /\ SubSeq(last'.log[e].data, 5, Len(last'.log[e].data))
                            = last'.log[1].data
            ELSE SendsTo(last'.log, i) = {}

C3_Broadcast == [][C3_Step]_vars

\* a datagram has been broadcast with one slot AUTHENTICATED and the other
\* connected but not authenticated
C3_Witness ==
    /\ last.op = "handle_iface_read"
    /\ EvsOf("send") # {}
    /\ \E i, j \in Slots :
          /\ clients[i].ctstate = CT_AUTHENTICATED
          /\ clients[j].is_used
          /\ clients[j].ctstate \in {CT_NEW, CT_ESTABLISHED}

\* C4: only authenticated traffic reaches the TUN device.  Every write to
\* the TUN handle is the processing of a complete DATA packet of a slot in
\* AUTHENTICATED, every such packet is written, and the bytes written are
\* the payload of that packet as it came in; a DATA packet of a slot in NEW
\* or ESTABLISHED is not written and terminates the connection.
C4_TunOnlyAuthenticated ==
    last.op = "handle_client" =>
        \A e \in DOMAIN last.log :
            /\ last.log[e].k = "tun_write"
                  => /\ last.log[e - 1].k = "frame"
                     /\ last.log[e - 1].type = CLI_PKT_DATA
                     /\ last.log[e - 1].st = CT_AUTHENTICATED
            /\ (last.log[e].k = "frame" /\ last.log[e].type = CLI_PKT_DATA)
                  => IF last.log[e].st = CT_AUTHENTICATED
                     THEN /\ e < Len(last.log)
                          /\ last.log[e + 1].k = "tun_write"
                          /\ FrameNo(e) <= Len(StreamFrames(Input))
                          /\ StreamFrames(Input)[FrameNo(e)].type = CLI_PKT_DATA
                          /\ last.log[e + 1].data
                                = StreamFrames(Input)[FrameNo(e)].payload
                          /\ Len(last.log[e + 1].data) = last.log[e].len
                          /\ AfterFrame(e + 2, CT_AUTHENTICATED, TRUE)
                     ELSE /\ last.log[e].st \in {CT_NEW, CT_ESTABLISHED}
                          /\ ClosedAt(e + 1, last.slot)

\* C5: out-of-order protocol.  When the packet processed for a slot in NEW
\* is AUTH, DATA or CLOSE, the Auth Adapter is not called, nothing is sent
\* to the client and the connection is terminated and the slot recycled; a
\* slot in NEW has never been sent anything.
C5_OutOfOrder ==
    /\ \A i \in Slots :
          (clients[i].is_used /\ clients[i].ctstate = CT_NEW)
              => clients[i].send_c = 0
    /\ last.op = "handle_client" =>
          \A e \in DOMAIN last.log :
              (/\ last.log[e].k = "frame"
               /\ last.log[e].st = CT_NEW
               /\ last.log[e].type \in {CLI_PKT_AUTH, CLI_PKT_DATA, CLI_PKT_CLOSE})
                  => /\ e = 2
                     /\ EvsOf("auth") = {}
                     /\ EvsOf("send") = {}
                     /\ EvsOf("ctstate") = {}
                     /\ ClosedAt(e + 1, last.slot)

\* an AUTH packet has been processed for a slot in NEW
C5_Witness ==
    /\ last.op = "handle_client"
    /\ Len(last.log) >= 2
    /\ last.log[2].k = "frame"
    /\ last.log[2].st = CT_NEW
    /\ last.log[2].type = CLI_PKT_AUTH

\* C6: HELLO handling.  A HELLO packet processed in NEW sets the state to
\* ESTABLISHED and is answered by exactly one send, of a BANNER packet with
\* a payload of three version triples (9 bytes); the slot stays ESTABLISHED
\* when that send succeeds and the connection is terminated when it fails.
\* A HELLO packet processed in ESTABLISHED or AUTHENTICATED has no effect.
BannerBytes == << SRV_PKT_BANNER, 0, 0, 9, 0, 0, 1, 0, 0, 1, 0, 0, 1 >>

C6_Hello ==
    last.op = "handle_client" =>
        \A e \in DOMAIN last.log :
            (last.log[e].k = "frame" /\ last.log[e].type = CLI_PKT_HELLO)
                => IF last.log[e].st = CT_NEW
                   THEN /\ Len(last.log) >= e + 2
                        /\ last.log[e + 1].k = "ctstate"
                        /\ last.log[e + 1].from = CT_NEW
                        /\ last.log[e + 1].to = CT_ESTABLISHED
                        /\ last.log[e + 2].k = "send"
                        /\ last.log[e + 2].slot = last.slot
                        /\ last.log[e + 2].fd = last.log[1].fd
                        /\ last.log[e + 2].data = BannerBytes
                        /\ IF last.log[e + 2].ret > 0
                           THEN AfterFrame(e + 3, CT_ESTABLISHED, FALSE)
                           ELSE ClosedAt(e + 3, last.slot)
                   ELSE /\ last.log[e].st \in {CT_ESTABLISHED, CT_AUTHENTICATED}
                        /\ NoEffect(e)

\* a HELLO packet has been answered by a BANNER and the slot is ESTABLISHED
C6_Witness ==
    /\ last.op = "handle_client"
    /\ Len(last.log) = 4
    /\ last.log[2].k = "frame" /\ last.log[2].type = CLI_PKT_HELLO
    /\ last.log[4].k = "send" /\ last.log[4].ret > 0
    /\ clients[last.slot].ctstate = CT_ESTABLISHED

\* a HELLO packet has been processed for a slot in AUTHENTICATED
C6_WitnessNoOp ==
    /\ last.op = "handle_client"
    /\ \E e \in EvsOf("frame") :
          /\ last.log[e].type = CLI_PKT_HELLO
          /\ last.log[e].st = CT_AUTHENTICATED

\* the send at position e of the log is an AUTH_OK packet for the slot of
\* the handler: type AUTH_OK, length 50, 54 bytes
IsAuthOkSend(e) ==
    /\ last.log[e].k = "send"
    /\ last.log[e].slot = last.slot
    /\ last.log[e].fd = last.log[1].fd
    /\ Len(last.log[e].data) = 4 + 50
    /\ SubSeq(last.log[e].data, 1, 4) = << SRV_PKT_AUTH_OK, 0, 0, 50 >>

\* the adapter has accepted the AUTH packet at position e of the log,
\* processed in ESTABLISHED
AuthAccepted(e) ==
    /\ last.log[e].k = "frame"
    /\ last.log[e].type = CLI_PKT_AUTH
    /\ last.log[e].st = CT_ESTABLISHED
    /\ Len(last.log) > e
    /\ last.log[e + 1].k = "auth"
    /\ last.log[e + 1].ok

\* an AUTH packet processed in AUTHENTICATED has no effect, and AUTH_OK is
\* sent only in answer to an accepted AUTH packet
AuthIdempotent ==
    \A e \in DOMAIN last.log :
        /\ (/\ last.log[e].k = "frame"
            /\ last.log[e].type = CLI_PKT_AUTH
            /\ last.log[e].st = CT_AUTHENTICATED)
               => /\ last.log[e].is_auth
                  /\ NoEffect(e)
        /\ (last.log[e].k = "send" /\ last.log[e].data[1] = SRV_PKT_AUTH_OK)
               => (e > 2 /\ AuthAccepted(e - 2))

\* C7 as stated: AUTH handling.  When the adapter accepts the AUTH packet
\* of a slot in ESTABLISHED, exactly one AUTH_OK packet is sent and the
\* slot becomes AUTHENTICATED with is_auth set; an AUTH packet processed in
\* AUTHENTICATED has no effect.
C7_AuthAsStated ==
    last.op = "handle_client" =>
        /\ AuthIdempotent
        /\ \A e \in DOMAIN last.log :
              AuthAccepted(e)
                  => /\ Len(last.log) >= e + 3
                     /\ IsAuthOkSend(e + 2)
                     /\ last.log[e + 3].k = "ctstate"
                     /\ last.log[e + 3].to = CT_AUTHENTICATED
                     /\ AfterFrame(e + 4, CT_AUTHENTICATED, TRUE)

\* C7 (amended): AUTH handling.  When the adapter accepts the AUTH packet
\* of a slot in ESTABLISHED, exactly one AUTH_OK packet is sent, and if
\* that send succeeds the slot becomes AUTHENTICATED with is_auth set; if
\* the send fails, an AUTH_REJECT packet is sent, the connection is
\* terminated and the slot is never AUTHENTICATED.  An AUTH packet
\* processed in AUTHENTICATED has no effect.
C7_Auth ==
    last.op = "handle_client" =>
        /\ AuthIdempotent
        /\ \A e \in DOMAIN last.log :
              AuthAccepted(e)
                  => /\ Len(last.log) >= e + 3
                     /\ IsAuthOkSend(e + 2)
                     /\ IF last.log[e + 2].ret > 0
                        THEN /\ last.log[e + 3].k = "ctstate"
                             /\ last.log[e + 3].from = CT_ESTABLISHED
                             /\ last.log[e + 3].to = CT_AUTHENTICATED
                             /\ AfterFrame(e + 4, CT_AUTHENTICATED, TRUE)
                        ELSE /\ last.log[e + 3].k = "send"
                             /\ last.log[e + 3].data
                                   = << SRV_PKT_AUTH_REJECT, 0, 0, 0 >>
                             /\ ClosedAt(e + 4, last.slot)
                             /\ last.log[e + 6].from = CT_ESTABLISHED

\* an accepted client has been sent AUTH_OK and has become AUTHENTICATED
C7_Witness ==
    /\ last.op = "handle_client"
    /\ clients[last.slot].ctstate = CT_AUTHENTICATED
    /\ \E e \in DOMAIN last.log : AuthAccepted(e) /\ last.log[e + 2].ret > 0

\* an AUTH packet has been processed for a slot in AUTHENTICATED
C7_WitnessAgain ==
    /\ last.op = "handle_client"
    /\ \E e \in EvsOf("frame") :
          /\ last.log[e].type = CLI_PKT_AUTH
          /\ last.log[e].st = CT_AUTHENTICATED

\* C8: auth rejection.  When the adapter rejects the credentials of a slot
\* in ESTABLISHED, AUTH_REJECT (length 0) is sent first, then the
\* connection is terminated, and the slot index is on the free stack when
\* that handler invocation returns; the slot does not become AUTHENTICATED.
C8_AuthReject ==
    last.op = "handle_client" =>
        \A e \in DOMAIN last.log :
            (last.log[e].k = "auth" /\ ~last.log[e].ok)
                => /\ last.log[e - 1].k = "frame"
                   /\ last.log[e - 1].st = CT_ESTABLISHED
                   /\ Len(last.log) > e
                   /\ last.log[e + 1].k = "send"
                   /\ last.log[e + 1].slot = last.slot
                   /\ last.log[e + 1].fd = last.log[1].fd
                   /\ last.log[e + 1].data = << SRV_PKT_AUTH_REJECT, 0, 0, 0 >>
                   /\ ClosedAt(e + 2, last.slot)
                   /\ last.log[e + 4].from = CT_ESTABLISHED
                   /\ \A c \in EvsOf("ctstate") :
                         last.log[c].to # CT_AUTHENTICATED

\* the adapter has rejected the credentials of a slot
C8_Witness ==
    /\ last.op = "handle_client"
    /\ \E e \in EvsOf("auth") : ~last.log[e].ok
    /\ ~clients[last.slot].is_used

\* the errors a step charges to slot i: the failed sends to it and the
\* charges of its own handler
ChargedTo(log, slot, i) ==
    {e \in DOMAIN log :
        \/ log[e].k = "send" /\ log[e].slot = i /\ log[e].ret < 0
        \/ log[e].k = "err_c" /\ slot = i}

\* C9: error-budget enforcement.  err_c counts the errors charged to a slot
\* since it was accepted; once MAX_ERR_C errors have been charged, a step
\* that charges a further error to the slot disconnects it and recycles it.
C9_Step(i) ==
    (/\ clients[i].is_used
     /\ clients[i].err_c >= MAX_ERR_C
     /\ ChargedTo(last'.log, last'.slot, i) # {})
        => /\ ~clients'[i].is_used
           /\ clients'[i].ctstate = CT_DISCONNECTED
           /\ fds_stack'.sp < fds_stack'.max_sp
           /\ fds_stack'.arr[fds_stack'.sp] = i

C9_BudgetEnforced == [][\A i \in Slots : C9_Step(i)]_vars

\* C10: the error budget is a ceiling.  No slot in use has err_c above
\* MAX_ERR_C.
C10_BudgetCeiling ==
    \A i \in Slots : clients[i].is_used => clients[i].err_c <= MAX_ERR_C

\* the bytes at the head of the receive buffer of the last client handler
\* are a header whose length field is above the maximum
CorruptHead ==
    /\ last.op = "handle_client"
    /\ last.log[1].how = "data"
    /\ Len(Input) >= 4
    /\ Input[3] * 256 + Input[4] > 4096

\* C11: corruption containment.  A handler that finds a header with a
\* length above 4096 at the head of the receive buffer of slot i sets the
\* slot's recv_s to 0 and adds exactly 1 to its err_c; no other slot and no
\* other poll entry changes; while the budget is not exhausted the
\* connection stays open (the slot's state, descriptor and poll entry stay
\* as they were) and the free stack does not change; once it is exhausted
\* the slot is terminated.
C11_Step(i) ==
    (CorruptHead' /\ last'.slot = i) =>
        /\ \A j \in Slots \ {i} :
              clients'[j] = clients[j] /\ clfds'[j] = clfds[j]
        /\ stop' = stop
        /\ clients'[i].recv_s = 0
        /\ clients'[i].err_c = U8(clients[i].err_c + 1)
        /\ EvsOf("send")' = {} /\ EvsOf("tun_write")' = {}
        /\ IF clients[i].err_c < MAX_ERR_C
           THEN /\ clients'[i] = [clients[i] EXCEPT
                                     !.recv_s = 0,
                                     !.err_c = @ + 1,
                                     !.recv_c = @ + 1,
                                     !.recv_buf = clients'[i].recv_buf]
                /\ clients'[i].is_used
                /\ clfds'[i] = clfds[i]
                /\ fds_stack' = fds_stack
           ELSE ClosedAt(3, i)'

C11_CorruptionContained == [][\A i \in Slots : C11_Step(i)]_vars

\* a corrupt header has been charged to a slot while the other slot holds
\* an open connection
C11_Witness ==
    /\ CorruptHead
    /\ clients[last.slot].is_used
    /\ clients[last.slot].err_c = 1
    /\ \E j \in Slots \ {last.slot} : clients[j].is_used

\* a byte stream of encoded packets, possibly cut anywhere: no header in
\* it has a length above the maximum
RECURSIVE WellFormed(_)
WellFormed(bytes) ==
    IF Len(bytes) < 4 THEN TRUE
    ELSE IF bytes[3] * 256 + bytes[4] > 4096 THEN FALSE
    ELSE IF Len(bytes) <= 4 + bytes[3] * 256 + bytes[4] THEN TRUE
    ELSE WellFormed(SubSeq(bytes, 5 + bytes[3] * 256 + bytes[4], Len(bytes)))

\* the packets a handler dispatched, with the payloads it forwarded
Dispatched(log) ==
    SelectSeq(log, LAMBDA e : e.k \in {"frame", "tun_write"})

\* what a slot record holds, but for the count of recv() calls and the
\* bytes of the receive buffer beyond the fill level
SlotView(cl) ==
    [is_used |-> cl.is_used, is_conn |-> cl.is_conn, is_auth |-> cl.is_auth,
     ctstate |-> cl.ctstate, username |-> cl.username, cli_fd |-> cl.cli_fd,
     err_c |-> cl.err_c, send_c |-> cl.send_c, recv_s |-> cl.recv_s,
     head |-> BufRead(cl.recv_buf, 0, cl.recv_s)]

\* the second of two handlers: it runs if the first left the connection open
SecondRecv(h1, slot, chunk) ==
    IF h1.fd = -1 THEN [cl |-> h1.cl, log |-> h1.log]
    ELSE [cl |-> after_recv(handle_client_ctx(h1.cl, h1.fd, h1.stk,
                                Recv("data", chunk), AllFull, TRUE),
                            slot, Recv("data", chunk)).cl,
          log |-> h1.log \o
                  after_recv(handle_client_ctx(h1.cl, h1.fd, h1.stk,
                                Recv("data", chunk), AllFull, TRUE),
                             slot, Recv("data", chunk)).log]

\* the bytes d delivered to the slot in two recv() calls, the first of k
\* bytes, every send succeeding and the adapter accepting
TwoRecvs(cl, fd, stk, slot, d, k) ==
    SecondRecv(after_recv(handle_client_ctx(cl, fd, stk,
                              Recv("data", SubSeq(d, 1, k)), AllFull, TRUE),
                          slot, Recv("data", SubSeq(d, 1, k))),
               slot, SubSeq(d, k + 1, Len(d)))

\* the last handler got bytes of a well-formed stream, and its sends
\* succeeded and the adapter accepted
CleanDelivery ==
    /\ last.op = "handle_client"
    /\ last.log[1].how = "data"
    /\ WellFormed(Input)
    /\ \A e \in DOMAIN last.log :
          /\ last.log[e].k = "send" => last.log[e].ret = Len(last.log[e].data)
          /\ last.log[e].k = "auth" => last.log[e].ok

\* C12: sliding-buffer correctness.  The packets a handler dispatches for
\* the bytes of one recv(), and the slot record it leaves, are those of the
\* same bytes delivered in two recv() calls, wherever the bytes are cut.
C12_Step(i) ==
    (CleanDelivery' /\ last'.slot = i) =>
        \A k \in 1 .. (Len(last'.log[1].data) - 1) :
            /\ Dispatched(TwoRecvs(clients[i], clfds[i].fd, fds_stack, i,
                                   last'.log[1].data, k).log)
                  = Dispatched(last'.log)
            /\ SlotView(TwoRecvs(clients[i], clfds[i].fd, fds_stack, i,
                                 last'.log[1].data, k).cl)
                  = SlotView(clients'[i])

C12_SlidingBuffer == [][\A i \in Slots : C12_Step(i)]_vars

\* the bytes of a stream that lie behind its last complete packet
RECURSIVE StreamTail(_)
StreamTail(bytes) ==
    IF Len(bytes) < 4 THEN bytes
    ELSE IF bytes[3] * 256 + bytes[4] > 4096 THEN bytes
    ELSE IF Len(bytes) < 4 + bytes[3] * 256 + bytes[4] THEN bytes
    ELSE StreamTail(SubSeq(bytes, 5 + bytes[3] * 256 + bytes[4], Len(bytes)))

\* C13: frame ordering and compaction.  A handler that received bytes of a
\* well-formed stream dispatches the complete packets of its input in the
\* order of the stream, each with its type, length and payload; unless a
\* packet terminated the connection it dispatches every one of them, and
\* on return the receive buffer holds, from position 0 and up to recv_s, the
\* bytes behind the last complete packet (recv_s = 0 when there are none).
C13_FramesInOrder ==
    (last.op = "handle_client" /\ last.log[1].how = "data"
        /\ WellFormed(Input)) =>
        /\ Cardinality(EvsOf("frame")) <= Len(StreamFrames(Input))
        /\ \A e \in EvsOf("frame") :
              /\ last.log[e].type = StreamFrames(Input)[FrameNo(e)].type
              /\ last.log[e].len
                    = Len(StreamFrames(Input)[FrameNo(e)].payload)
        /\ \A e \in EvsOf("tun_write") :
              last.log[e].data = StreamFrames(Input)[FrameNo(e)].payload
        /\ EvsOf("close") = {} =>
              /\ Cardinality(EvsOf("frame")) = Len(StreamFrames(Input))
              /\ clients[last.slot].recv_s = Len(StreamTail(Input))
              /\ BufRead(clients[last.slot].recv_buf, 0,
                         clients[last.slot].recv_s) = StreamTail(Input)

\* index i is on the free stack
OnFreeStack(i) ==
    \E k \in fds_stack.sp .. (fds_stack.max_sp - 1) : fds_stack.arr[k] = i

TerminationSteps == {"close", "pollfd", "clear", "push"}

\* C14: connection termination order.  A client handler that performs any
\* step of a termination performs the four of them once each, in the order
\* close the client fd, poll entry fd = -1, reset of the slot record, push
\* of the slot index; a slot leaves use only that way; and an index on the
\* free stack belongs to a slot with no open fd and a disabled poll entry.
C14_Step(i) ==
    /\ (last'.op = "handle_client" /\ last'.slot = i
          /\ \E e \in DOMAIN last'.log : last'.log[e].k \in TerminationSteps)
          => /\ ClosedAt(Len(last.log) - 3, i)'
             /\ \A e \in DOMAIN last'.log :
                   last'.log[e].k \in TerminationSteps
                      => e >= Len(last'.log) - 3
             /\ last'.log[Len(last'.log) - 3].fd = clfds[i].fd
             /\ clfds[i].fd = clients[i].cli_fd
    /\ (clients[i].is_used /\ ~clients'[i].is_used)
          => /\ last'.op = "handle_client" /\ last'.slot = i
             /\ EvsOf("push")' # {}
    /\ OnFreeStack(i)'
          => /\ clfds'[i].fd = -1
             /\ clients'[i].cli_fd = -1
             /\ ~clients'[i].is_used

C14_TerminationOrder == [][\A i \in Slots : C14_Step(i)]_vars

\* a CLOSE packet has terminated a connection while the other slot is open
C14_Witness ==
    /\ last.op = "handle_client"
    /\ \E e \in EvsOf("frame") :
          /\ last.log[e].type = CLI_PKT_CLOSE
          /\ ClosedAt(e + 1, last.slot)
    /\ OnFreeStack(last.slot)
    /\ \E j \in Slots \ {last.slot} : clfds[j].fd # -1

\* C15: slot exhaustion on accept.  A connection accepted while every
\* slot is in use is closed without anything being sent to it; no client
\* record, no poll entry and no field of the free stack changes and stop
\* stays unset.  A connection accepted while a slot is free is installed in
\* a slot, so that with max_conn = 2 two connections are served and a third
\* one is closed.
C15_Step ==
    (last'.op = "accept_conn" /\ last'.log[1].how = "conn") =>
        IF FreeCount = 0
        THEN /\ Cardinality(UsedSlots) = MaxConn
             /\ last'.log[Len(last'.log)]
                   = [k |-> "close", fd |-> last'.log[1].ret]
             /\ \A e \in DOMAIN last'.log :
                   last'.log[e].k \in {"accept", "pop", "close"}
             /\ clients' = clients
             /\ clfds' = clfds
             /\ fds_stack' = fds_stack
             /\ ~stop' /\ ~aborted'
        ELSE \/ /\ last'.slot \in Slots \ UsedSlots
                /\ clients'[last'.slot].is_used
                /\ clients'[last'.slot].ctstate = CT_NEW
                /\ clients'[last'.slot].cli_fd = last'.log[1].ret
                /\ clfds'[last'.slot].fd = last'.log[1].ret
                /\ EvsOf("close")' = {}
             \/ \* the peer address could not be formatted
                /\ Len(last'.log) = 2
                /\ last'.log[2] = [k |-> "close", fd |-> last'.log[1].ret]
                /\ UNCHANGED <<clients, clfds, fds_stack>>

C15_SlotExhaustion == [][C15_Step]_vars

\* a third connection has been closed while the first two, both greeted
\* with the banner, hold the two slots
C15_Witness ==
    /\ last.op = "accept_conn"
    /\ Len(last.log) = 3
    /\ last.log[2] = [k |-> "pop", val |-> -1]
    /\ last.log[3].k = "close"
    /\ \A i \in Slots : clients[i].ctstate = CT_ESTABLISHED
    /\ FreeCount = 0
    /\ ~stop

\* C16 as stated: a recv() that returns 0 or fails with an error other
\* than WOULD_BLOCK terminates the connection and recycles the slot within
\* that handler.
C16_PeerCloseAsStated ==
    (last.op = "handle_client" /\ last.log[1].how \in {"eof", "error"})
        => /\ EvsOf("push") # {}
           /\ ~clients[last.slot].is_used
           /\ OnFreeStack(last.slot)

\* C16: peer close.  A recv() that returns 0 terminates the connection and
\* recycles the slot within that handler, whatever the slot's state and
\* its err_c.  A recv() that fails with an error other than WOULD_BLOCK
\* sets recv_s to 0 and adds 1 to err_c; the connection is terminated only
\* if err_c had reached MAX_ERR_C before, and stays open in the state it
\* was in otherwise.
C16_Step(i) ==
    (last'.op = "handle_client" /\ last'.slot = i) =>
        /\ last'.log[1].how = "eof"
              => /\ ClosedAt(2, i)'
                 /\ clients'[i].err_c = clients[i].err_c
        /\ last'.log[1].how = "error"
              => /\ last'.log[2] = [k |-> "err_c", old |-> clients[i].err_c]
                 /\ clients'[i].recv_s = 0
                 /\ clients'[i].err_c = U8(clients[i].err_c + 1)
                 /\ IF clients[i].err_c < MAX_ERR_C
                    THEN /\ Len(last'.log) = 2
                         /\ clients'[i] = [clients[i] EXCEPT
                                              !.recv_s = 0,
                                              !.err_c = @ + 1,
                                              !.recv_c = @ + 1]
                         /\ clfds'[i] = clfds[i]
                         /\ fds_stack' = fds_stack
                    ELSE ClosedAt(3, i)'

C16_PeerClose == [][\A i \in Slots : C16_Step(i)]_vars

\* the peer has closed a connection in AUTHENTICATED to which a failed
\* recv() had been charged before
C16_Witness ==
    /\ last.op = "handle_client"
    /\ last.log[1].how = "eof"
    /\ ClosedAt(2, last.slot)
    /\ last.log[4].from = CT_AUTHENTICATED
    /\ clients[last.slot].err_c = 1

\* C17: client error events count as close.  When the pass over the
\* client entries comes to a slot for which poll reported an error or
\* hang-up, the client handler is invoked for that slot and the connection
\* is terminated.
C17_Step(i) ==
    (/\ pc = "clients" /\ loop.i = i /\ loop.rv > 0
     /\ loop.cl[i] \in {"err", "in_err"}
     /\ (pc' # pc \/ loop' # loop))
        => /\ last'.op = "handle_client" /\ last'.slot = i
           /\ EvsOf("push")' # {}
           /\ ~clients'[i].is_used
           /\ clfds'[i].fd = -1
           /\ OnFreeStack(i)'

C17_ErrorEventCloses == [][\A i \in Slots : C17_Step(i)]_vars

LoopPositions == {"top", "poll", "listen", "tun", "clients"}

\* C18: shutdown liveness.  Once stop is set while the event loop runs, the
\* loop is left and teardown runs to its end; a loop that sees stop at its
\* top begins no poll; and after stop was set at most one poll returns
\* otherwise than by the interruption.
C18_ShutdownLiveness ==
    /\ (stop /\ pc \in LoopPositions) ~> (pc = "done")
    /\ [][(stop /\ pc = "top") => pc' \in {"top", "destroy_state"}]_vars
    /\ [](loop.waits <= 1)

\* a signal came while the process was about to wait in poll, the wait ran
\* its course, and the server has been torn down
C18_Witness ==
    /\ pc = "done"
    /\ stop
    /\ sys.sig_pc = "poll"
    /\ loop.waits = 1
    /\ sys.retval = 0

\* the events of teardown: those behind the entry of destroy_state
InTeardown(e) ==
    \E d \in 1 .. (e - 1) : sys.log[d].k = "destroy_state"

SysEvs(kind) == {e \in DOMAIN sys.log : sys.log[e].k = kind}

\* C19: startup failure handling.  When a bring-up step has failed, the
\* entry point returns a value other than 0 after a teardown that closes
\* only handles the server had open, leaves none of them open, and reads
\* and frees only arrays that had been allocated.
C19_StartupFailure ==
    (pc \in {"done", "crashed"} /\ SysEvs("fail") # {}) =>
        /\ pc = "done"
        /\ sys.retval # 0
        /\ \A e \in SysEvs("close") : sys.log[e].held
        /\ sys.open = {}
        /\ \A e \in SysEvs("read") \cup SysEvs("free") :
              sys.log[e].p = "alloc"
        /\ sys.clients_p # "alloc" /\ sys.arr_p # "alloc"

\* what teardown releases, and the place of each in the order the claim
\* states and in the order of the code
Releases == {e \in DOMAIN sys.log :
                InTeardown(e) /\ sys.log[e].k \in {"close", "free"}}

RankStated(ev) ==
    CASE ev.k = "free" -> 4
      [] ev.what = "net" -> 1
      [] ev.what = "tun" -> 2
      [] OTHER -> 3

RankCode(ev) ==
    CASE ev.k = "free" /\ ev.what = "clients" -> 6
      [] ev.k = "free" -> 7
      [] ev.what = "pipe0" -> 1
      [] ev.what = "pipe1" -> 2
      [] ev.what = "tun" -> 3
      [] ev.what = "net" -> 4
      [] OTHER -> 5

\* bring-up acquires the client array, the stack, the pipe, the TUN handle
\* and the listen socket in this order
RankUp(ev) ==
    CASE ev.k = "alloc" /\ ev.what = "clients" -> 1
      [] ev.k = "alloc" -> 2
      [] ev.what = "pipe" -> 3
      [] ev.what = "tun" -> 4
      [] OTHER -> 5

Acquires == {e \in DOMAIN sys.log : sys.log[e].k \in {"alloc", "open"}}

BringUpOrder ==
    \A e, f \in Acquires :
        e < f => RankUp(sys.log[e]) < RankUp(sys.log[f])

\* the sockets of the slots in use are closed, and before any array is freed
ClientsClosedFirst ==
    /\ \A e, f \in Releases :
          (sys.log[e].k = "close" /\ sys.log[f].k = "free") => e < f
    /\ (pc = "done" /\ sys.clients_p = "freed") =>
          \A i \in Slots : clients[i].is_used =>
              \E e \in Releases : /\ sys.log[e].what = "client"
                                  /\ sys.log[e].fd = clients[i].cli_fd

\* a handle is closed by teardown unless its value is -1
SkipsSentinel ==
    /\ \A e \in Releases : sys.log[e].k = "close" => sys.log[e].fd # -1
    /\ pc = "done" =>
          /\ sys.net_fd # -1 <=> \E e \in Releases : sys.log[e].what = "net"
          /\ sys.tun_fd # -1 <=> \E e \in Releases : sys.log[e].what = "tun"
          /\ sys.pipe_fd[1] # -1
                <=> \E e \in Releases : sys.log[e].what = "pipe0"
          /\ sys.pipe_fd[2] # -1
                <=> \E e \in Releases : sys.log[e].what = "pipe1"

\* C20 as stated: teardown releases in the reverse order of bring-up:
\* listen socket, TUN, self-pipe, arrays.
C20_TeardownAsStated ==
    /\ BringUpOrder
    /\ SkipsSentinel
    /\ ClientsClosedFirst
    /\ \A e, f \in Releases :
          (e < f /\ sys.log[e].what # "client" /\ sys.log[f].what # "client")
             => RankStated(sys.log[e]) <= RankStated(sys.log[f])

\* C20: teardown order.  Bring-up proceeds client array and free stack,
\* self-pipe, TUN, listen socket.  Teardown closes the read end and the
\* write end of the self-pipe, the TUN handle and the listen socket, in
\* this order (the order of bring-up), skipping a handle whose value is -1,
\* then the sockets of the slots in use, and frees the client array and the
\* stack last.
C20_TeardownOrder ==
    /\ BringUpOrder
    /\ SkipsSentinel
    /\ ClientsClosedFirst
    /\ \A e, f \in Releases :
          e < f => /\ RankCode(sys.log[e]) <= RankCode(sys.log[f])
                   /\ RankCode(sys.log[e]) = RankCode(sys.log[f])
                         => sys.log[e].what = "client"

\* the server has been torn down after its event loop while a connection
\* was open: four handles and a client socket closed, two arrays freed
C20_Witness ==
    /\ pc = "done"
    /\ sys.sig_pc \in LoopPositions
    /\ Cardinality(Releases) = 7
    /\ \E e \in Releases : sys.log[e].what = "client"
    /\ Cardinality(UsedSlots) = 1

\* the sends of the last handler, a broadcast of a datagram read from TUN
BcastSends ==
    IF last.op = "handle_iface_read" /\ last.log[1].how = "data"
    THEN EvsOf("send") ELSE {}

\* a broadcast is the read followed by sends of the DATA packet and nothing
\* else: no accept and no client read comes between them
BcastUnbroken ==
    (last.op = "handle_iface_read" /\ last.log[1].how = "data") =>
        /\ last.log[1].k = "read"
        /\ \A e \in 2 .. Len(last.log) :
              /\ last.log[e].k = "send"
              /\ last.log[e].data = iface_pkt(last.log[1].data)

\* C21 as stated: within one broadcast the sends are issued in ascending
\* slot order: for slots i < j the packet goes to slot i first.
C21_BroadcastAscending ==
    /\ BcastUnbroken
    /\ \A e, f \in BcastSends :
          e < f => last.log[e].slot < last.log[f].slot

\* C21: broadcast ordering.  Within one broadcast the sends are issued in
\* descending slot order: for authenticated slots i < j the DATA packet is
\* sent to slot j before it is sent to slot i; and the whole broadcast is
\* done inside the one handler, before any client read or accept.
C21_BroadcastOrder ==
    /\ BcastUnbroken
    /\ \A e, f \in BcastSends :
          e < f => last.log[e].slot > last.log[f].slot

\* a datagram has been broadcast to two authenticated slots
C21_Witness ==
    /\ Cardinality(BcastSends) = 2
    /\ \A i \in Slots : clients[i].ctstate = CT_AUTHENTICATED
    /\ last.log[2].slot = 1 /\ last.log[3].slot = 0

\* the sends of a log that went to slot i and failed
FailedSendsTo(log, i) == {e \in SendsTo(log, i) : log[e].ret < 0}

\* C22: broadcast error isolation.  In a broadcast every slot that is
\* AUTHENTICATED is sent the DATA packet once, whether or not the send to
\* another slot failed; the err_c of a slot whose send failed grows by
\* exactly 1, and no other slot's err_c changes.
C22_Step ==
    (last'.op = "handle_iface_read" /\ last'.log[1].how = "data") =>
        \A i \in Slots :
            /\ clients[i].ctstate = CT_AUTHENTICATED
                  => Cardinality(SendsTo(last'.log, i)) = 1
            /\ clients'[i].err_c
                  = IF FailedSendsTo(last'.log, i) # {}
                    THEN clients[i].err_c + 1
                    ELSE clients[i].err_c

C22_ErrorIsolation == [][C22_Step]_vars

\* in a broadcast to two authenticated slots the first send, to slot 1, has
\* failed and the send to slot 0 has been made and has succeeded
C22_Isolated ==
    /\ Cardinality(BcastSends) = 2
    /\ last.log[2].slot = 1 /\ last.log[2].ret < 0
    /\ last.log[3].slot = 0 /\ last.log[3].ret = Len(last.log[3].data)
    /\ clients[1].err_c = 1 /\ clients[0].err_c = 0

\* the sends of a log to slot i that returned the full count, and those
\* that returned less or failed
FullSendsTo(log, i) == {e \in SendsTo(log, i) : log[e].ret = Len(log[e].data)}
PartSendsTo(log, i) == {e \in SendsTo(log, i) : log[e].ret < Len(log[e].data)}

\* C23: no partial sends.  Every outbound packet is written with one send
\* of exactly 4 + length bytes; a send that returns fewer bytes than
\* requested is an error: it is charged to the client's err_c and is not
\* counted in send_c as a delivered packet.
C23_Step(i) ==
    /\ \A e \in SendsTo(last'.log, i) :
          Len(last'.log[e].data)
             = 4 + last'.log[e].data[3] * 256 + last'.log[e].data[4]
    /\ (clients[i].is_used /\ clients'[i].is_used) =>
          /\ clients'[i].send_c
                = clients[i].send_c + Cardinality(FullSendsTo(last'.log, i))
          /\ clients'[i].err_c
                = clients[i].err_c + Cardinality(PartSendsTo(last'.log, i))
                  + Cardinality({e \in DOMAIN last'.log :
                                    last'.log[e].k = "err_c" /\ last'.slot = i})

C23_NoPartialSends == [][\A i \in Slots : C23_Step(i)]_vars

\* the sends the last handler made while it processed the packet at
\* position e of its log
SendsFor(e) == {x \in EvsOf("send") : x > e /\ FrameNo(x) = FrameNo(e)}

\* what is common to C24 as stated and as amended: a client handler sends
\* only to its own client, only while it processes a packet, and only
\* BANNER, AUTH_OK and AUTH_REJECT; accept_conn sends nothing; DATA packets
\* are sent by the TUN handler only
SendsConfined ==
    /\ last.op = "accept_conn" => EvsOf("send") = {}
    /\ last.op = "handle_client" =>
          \A x \in EvsOf("send") :
              /\ last.log[x].slot = last.slot
              /\ FrameNo(x) >= 1
              /\ last.log[x].data[1]
                    \in {SRV_PKT_BANNER, SRV_PKT_AUTH_OK, SRV_PKT_AUTH_REJECT}
    /\ \A x \in EvsOf("send") :
          last.log[x].data[1] = SRV_PKT_DATA => last.op = "handle_iface_read"

\* C24 as stated: while it processes one inbound packet the server issues
\* at most one send.
C24_OneSendPerFrame ==
    /\ SendsConfined
    /\ last.op = "handle_client" =>
          \A e \in EvsOf("frame") : Cardinality(SendsFor(e)) <= 1

\* C24: bounded side effects.  While it processes one inbound packet the
\* server issues at most one send to that client (BANNER, AUTH_OK or
\* AUTH_REJECT), except that an AUTH_OK whose send failed is followed by an
\* AUTH_REJECT, two sends for that AUTH packet; it sends nothing to any
\* other client, and DATA packets are sent by the TUN broadcast only.
C24_BoundedSideEffects ==
    /\ SendsConfined
    /\ last.op = "handle_client" =>
          \A e \in EvsOf("frame") :
              \/ Cardinality(SendsFor(e)) <= 1
              \/ /\ last.log[e].type = CLI_PKT_AUTH
                 /\ SendsFor(e) = {e + 2, e + 3}
                 /\ last.log[e + 2].data[1] = SRV_PKT_AUTH_OK
                 /\ last.log[e + 2].ret <= 0
                 /\ last.log[e + 3].data[1] = SRV_PKT_AUTH_REJECT

\* an AUTH packet has been answered with a failed AUTH_OK and an
\* AUTH_REJECT while another client is connected
C24_Witness ==
    /\ last.op = "handle_client"
    /\ \E e \in EvsOf("frame") : Cardinality(SendsFor(e)) = 2
    /\ \E j \in Slots \ {last.slot} : clients[j].is_used

UsedTypes == {CLI_PKT_HELLO, CLI_PKT_AUTH, CLI_PKT_DATA, CLI_PKT_CLOSE}

\* the packet at position e of the log was passed over: nothing was charged
\* for it, the packet behind it in the input, if there is one, is the next
\* thing the handler processed, and otherwise the handler returned with the
\* connection open, the slot in the state it was in and the rest of the
\* input kept in the receive buffer
PassedOver(e) ==
    /\ FrameNo(e) <= Len(StreamFrames(Input))
    /\ IF FrameNo(e) < Len(StreamFrames(Input))
       THEN /\ Len(last.log) > e
            /\ last.log[e + 1].k = "frame"
            /\ last.log[e + 1].st = last.log[e].st
            /\ last.log[e + 1].is_auth = last.log[e].is_auth
       ELSE /\ Len(last.log) = e
            /\ clients[last.slot].is_used
            /\ clfds[last.slot].fd = last.log[1].fd
            /\ clients[last.slot].ctstate = last.log[e].st
            /\ clients[last.slot].is_auth = last.log[e].is_auth
            /\ clients[last.slot].recv_s = Len(StreamTail(Input))

\* C25: unused packet types.  A complete packet whose type is not HELLO,
\* AUTH, DATA or CLOSE terminates the connection when the slot is not
\* authenticated and is ignored when it is: state and is_auth stay, the
\* connection stays open and the packets behind it in the byte stream are
\* still processed.
C25_UnusedTypes ==
    (last.op = "handle_client" /\ last.log[1].how = "data") =>
        \A e \in EvsOf("frame") :
            last.log[e].type \notin UsedTypes
                => IF last.log[e].is_auth
                   THEN PassedOver(e)
                   ELSE ClosedAt(e + 1, last.slot)

\* the name of a client that has not given one: "_"
NoName == << 95 >>

\* slot i holds no connection after having held one
Terminated(i) == ~clients[i].is_used /\ clients[i].ctstate = CT_DISCONNECTED

\* the record of a slot whose connection was terminated, but for the name
ResetFields(i) ==
    /\ ~clients[i].is_used
    /\ ~clients[i].is_conn
    /\ ~clients[i].is_auth
    /\ clients[i].ctstate = CT_DISCONNECTED
    /\ clients[i].cli_fd = -1
    /\ clients[i].recv_s = 0
    /\ clients[i].send_c = 0
    /\ clients[i].recv_c = 0
    /\ clients[i].arr_idx = i

\* the last handler terminated the connection of its slot
JustTerminated == last.op = "handle_client" /\ EvsOf("clear") # {}

\* C26 as stated: slot reset.  After its connection was terminated a slot
\* record has in_use, is_connected and is_authenticated false, state
\* DISCONNECTED, fd -1, recv_s, send_c and recv_c 0 and the username "_",
\* and its index is still the slot's place in the array.
C26_SlotResetAsStated ==
    /\ JustTerminated => Terminated(last.slot)
    /\ \A i \in Slots :
          Terminated(i) => ResetFields(i) /\ clients[i].username = NoName

\* C26: slot reset.  After its connection was terminated a slot record has
\* in_use, is_connected and is_authenticated false, state DISCONNECTED,
\* fd -1, recv_s, send_c and recv_c 0, and its index is still the slot's
\* place in the array; the username is "_" again at the latest when the
\* slot has been accepted anew (the termination itself leaves it alone).
C26_SlotReset ==
    /\ JustTerminated => Terminated(last.slot)
    /\ \A i \in Slots :
          /\ Terminated(i) => ResetFields(i)
          /\ (last.op = "accept_conn" /\ last.slot = i)
                => clients[i].username = NoName /\ clients[i].arr_idx = i
          /\ (clients[i].is_used /\ clients[i].ctstate = CT_NEW)
                => clients[i].username = NoName

\* the connection of a client that had sent its name "a" and was
\* authenticated has been terminated; the name is still in the record
C26_Witness ==
    /\ JustTerminated
    /\ \E e \in EvsOf("clear") : last.log[e].from = CT_AUTHENTICATED
    /\ ResetFields(last.slot)
    /\ clients[last.slot].username = << 97 >>

\* the indices on the free stack, the top first
StackSeq(stk) == [k \in 1 .. (stk.max_sp - stk.sp) |-> stk.arr[stk.sp + k - 1]]

\* slot j has held no connection since start-up
NeverUsed(j) == ~clients[j].is_used /\ clients[j].ctstate = CT_NEW

\* C27: LIFO slot reuse.  A pop returns the index pushed last among those
\* on the stack: an accepted connection is placed in the slot on top of the
\* stack and leaves the rest of the stack as it was, a termination puts its
\* slot on top of what was there, and nothing else changes the stack.  So
\* after start-up the accepts take slots 0, 1, 2, ... in order, and after
\* slot k was disconnected the next connection accepted is placed in slot k.
C27_Step ==
    /\ IF last'.op = "accept_conn" /\ last'.slot >= 0
       THEN /\ StackSeq(fds_stack) = << last'.slot >> \o StackSeq(fds_stack')
            /\ NeverUsed(last'.slot)
                  => last'.slot = Cardinality({j \in Slots : ~NeverUsed(j)})
            /\ (last.op = "handle_client" /\ EvsOf("push") # {})
                  => last'.slot = last.slot
       ELSE IF last'.op = "handle_client" /\ EvsOf("push")' # {}
       THEN StackSeq(fds_stack') = << last'.slot >> \o StackSeq(fds_stack)
       ELSE fds_stack' = fds_stack
    /\ \A j \in Slots : NeverUsed(j)
          => \A k \in Slots : k > j => NeverUsed(k)

C27_LifoReuse == [][C27_Step]_vars

\* slot 0 and then slot 1 were disconnected, and the connection accepted
\* next has been placed in slot 1
C27_Witness ==
    /\ last.op = "accept_conn"
    /\ last.slot = 1
    /\ accepted = 3
    /\ clients[0].ctstate = CT_DISCONNECTED
    /\ StackSeq(fds_stack) = << 0 >>

\* the step of the event loop that serves a readable listen socket
ListenServed == pc = "listen" /\ loop.net = "in" /\ pc' = "tun"

\* C28 as stated: accept draining.  On a wakeup with the listen socket
\* readable, every connection pending at that wakeup has been installed in
\* a slot or closed when the loop goes on to the TUN and client steps.
C28_AcceptDrained == [][ListenServed => loop'.pend = 0]_vars

\* C28: one accept per wakeup.  On a wakeup with the listen socket readable
\* the loop calls accept once; a connection it returns is installed in a
\* slot or closed before the loop goes on to the TUN and client steps, and
\* the other connections pending at that wakeup stay pending for the
\* wakeups that follow.
C28_Step ==
    ListenServed =>
        /\ last'.op = "accept_conn"
        /\ Cardinality(EvsOf("accept")') = 1
        /\ last'.log[1].how = "conn" =>
              /\ loop'.pend = loop.pend - 1
              /\ \/ /\ last'.slot \in Slots
                    /\ clfds'[last'.slot].fd = last'.log[1].ret
                 \/ last'.log[Len(last'.log)]
                       = [k |-> "close", fd |-> last'.log[1].ret]
        /\ loop'.rv = loop.rv - 1

C28_OneAcceptPerWakeup == [][C28_Step]_vars

\* of two connections pending at a wakeup one has been installed and the
\* other still waits while the loop goes on to the TUN step
C28_Witness ==
    /\ pc = "tun"
    /\ last.op = "accept_conn"
    /\ last.slot \in Slots
    /\ loop.pend = 1
    /\ accepted = 1

\* the step of the event loop that serves a readable TUN handle
TunServed == pc = "tun" /\ loop.rv > 0 /\ loop.tun = "in" /\ pc' = "clients"

\* C29: TUN read outcomes.  A TUN read that reports WOULD_BLOCK sends
\* nothing and changes no state; a read that fails otherwise sets stop and
\* broadcasts nothing, and the loop, once stop was set that way, finishes
\* its pass over the clients and leaves at the top of the next iteration: it
\* begins no poll, accepts nothing and reads the TUN handle no more.
C29_Step ==
    TunServed =>
        /\ last'.op = "handle_iface_read"
        /\ last'.log[1].how \in {"eagain", "error"} =>
              /\ Len(last'.log) = 1
              /\ UNCHANGED <<clients, fds_stack, clfds, aborted, accepted>>
        /\ last'.log[1].how = "eagain" => stop' = stop
        /\ last'.log[1].how = "error" => stop'
        /\ last'.log[1].how = "data" => stop' = stop

C29_WitnessAgain ==
    /\ pc = "clients"
    /\ last.op = "handle_iface_read"
    /\ last.log[1].how = "eagain"
    /\ \E i \in Slots : clients[i].is_used

\* the indices on the shared free stack, top first
FreeSeq == [k \in 1 .. (cl_stk.max_sp - cl_stk.sp) |-> cl_stk.arr[cl_stk.sp + k - 1]]

\* the threads that, outside the stack, hold a popped index not yet given
\* to a connection, or the index of a closed connection not yet pushed
Holding == {t \in Threads :
               \/ threads[t].pc = "register"
               \/ threads[t].pc = "lock" /\ threads[t].at \in {"fail", "close"}}

\* the threads inside srstk_pop or srstk_push
InStack == {t \in Threads :
               threads[t].pc \in {"pop", "pop_st", "push", "push_st", "unlock"}}

\* C30: multi-reactor free stack.  With more than one thread, every pop and
\* push on the shared client free stack runs with the stack's mutex held by
\* the thread that runs it; no slot index belongs to two live connections at
\* once, no index of a live connection is on the stack, and whenever no
\* thread is inside the stack every slot index is in exactly one place: on
\* the stack once, with one live connection, or in the hands of one thread
\* on its way between the two.
C30_SharedFreeStack ==
    /\ \A t \in InStack : cl_stk.lock = t
    /\ \A c, d \in live : c[2] = d[2] => c = d
    /\ \A c \in live : \A k \in 1 .. Len(FreeSeq) : FreeSeq[k] # c[2]
    /\ cl_stk.sp \in 0 .. cl_stk.max_sp
    /\ (InStack = {}) =>
          /\ \A j, k \in 1 .. Len(FreeSeq) : FreeSeq[j] = FreeSeq[k] => j = k
          /\ \A t \in Holding :
                /\ \A k \in 1 .. Len(FreeSeq) : FreeSeq[k] # threads[t].idx
                /\ \A c \in live : c[2] # threads[t].idx
                /\ \A u \in Holding : threads[u].idx = threads[t].idx => u = t
          /\ Len(FreeSeq) + Cardinality(live) + Cardinality(Holding) = MaxConn

\* thread 1 is storing the index of a connection it closed while thread 0,
\* with a new connection in hand, waits for the mutex to pop, and the other
\* slot belongs to a live connection
C30_Witness ==
    /\ threads[1].pc = "push_st"
    /\ threads[1].at = "close"
    /\ cl_stk.lock = 1
    /\ threads[0].pc = "lock"
    /\ threads[0].at = "register"
    /\ Cardinality(live) = 1

\* the indices on the free stack of the poll server
FreeEntries == {fds_stack.arr[k] : k \in fds_stack.sp .. (fds_stack.max_sp - 1)}

\* the last accept found the free stack empty
PoppedEmpty ==
    /\ last.op = "accept_conn"
    /\ \E e \in EvsOf("pop") : last.log[e].val = -1

\* C31: free-stack well-formedness.  In every reachable state
\* 0 <= sp <= max_sp, the entries arr[sp..max_sp) are pairwise distinct and
\* are exactly the indices of the slots not in use, no assertion of the
\* allocator has failed (push_fds has never met sp = 0, pop_fds has never
\* met sp > max_sp), and a pop on the empty stack returns -1 and leaves the
\* stack as it was.
C31_StackShape ==
    /\ fds_stack.sp \in 0 .. fds_stack.max_sp
    /\ fds_stack.max_sp = MaxConn
    /\ \A j, k \in fds_stack.sp .. (fds_stack.max_sp - 1) :
           fds_stack.arr[j] = fds_stack.arr[k] => j = k
    /\ FreeEntries = {i \in Slots : ~clients[i].is_used}
    /\ ~aborted
    /\ push_fds_pre(fds_stack) \/ UsedSlots = {}
    /\ pop_fds_pre(fds_stack)
    /\ PoppedEmpty => fds_stack.sp = fds_stack.max_sp

\* an accept that reached the allocator on the empty stack got -1 and left
\* the stack alone, and -1 is returned on the empty stack only
C31_Step ==
    (last' # last /\ last'.op = "accept_conn"
        /\ \E e \in DOMAIN last'.log : last'.log[e].k = "pop") =>
        /\ \A e \in DOMAIN last'.log :
               last'.log[e].k = "pop" =>
                   (last'.log[e].val = -1 <=> fds_stack.sp = fds_stack.max_sp)
        /\ fds_stack.sp = fds_stack.max_sp => fds_stack' = fds_stack

C31_FreeStackWellFormed == []C31_StackShape /\ [][C31_Step]_vars

\* a connection has arrived with every slot in use: the pop returned -1
C31_Witness ==
    /\ PoppedEmpty
    /\ UsedSlots = Slots
    /\ fds_stack.sp = fds_stack.max_sp

\* C32: the poll set mirrors the client array.  Between handler invocations,
\* for every slot i the poll entry 3 + i holds the descriptor of clients[i],
\* that descriptor is -1 exactly when the slot is not in use, the slot knows
\* its own index, an entry in use asks for POLLIN, and entries 0..2 are
\* bound to the listen socket, the TUN handle and the read end of the pipe.
C32_PollSetMirror ==
    pc \in LoopPositions =>
        /\ \A i \in Slots :
              /\ clfds[i].fd = clients[i].cli_fd
              /\ clfds[i].fd = -1 <=> ~clients[i].is_used
              /\ clients[i].arr_idx = i
              /\ clients[i].is_used => clfds[i].events = POLLIN
        /\ loop.fds = << sys.net_fd, sys.tun_fd, sys.pipe_fd[1] >>
        /\ \A k \in 1 .. 3 : loop.fds[k] \in sys.open
        /\ \A i \in Slots : \A k \in 1 .. 3 : clfds[i].fd # loop.fds[k]

\* the loop is about to poll with one slot in use and the other one just
\* terminated
C32_Witness ==
    /\ pc = "poll"
    /\ last.op = "handle_client"
    /\ EvsOf("pollfd") # {}
    /\ \E i \in Slots : clients[i].is_used /\ clfds[i].fd > 2
    /\ \E i \in Slots : ~clients[i].is_used /\ clfds[i].fd = -1

\* C33: flag/state agreement.  In every reachable state, for every slot,
\* is_auth holds exactly when ctstate is CT_AUTHENTICATED, and a slot whose
\* ctstate is CT_ESTABLISHED or CT_AUTHENTICATED is in use, connected and
\* has a descriptor, in the record and in its poll entry.
C33_FlagStateAgreement ==
    \A i \in Slots :
        /\ clients[i].is_auth <=> clients[i].ctstate = CT_AUTHENTICATED
        /\ clients[i].ctstate \in {CT_ESTABLISHED, CT_AUTHENTICATED} =>
              /\ clients[i].is_used
              /\ clients[i].is_conn
              /\ clients[i].cli_fd # -1
              /\ clfds[i].fd # -1
        /\ ~clients[i].is_used => ~bcast_target(clients[i])

\* an authenticated connection has just been terminated while the other
\* slot is authenticated
C33_Witness ==
    /\ last.op = "handle_client"
    /\ \E e \in EvsOf("clear") : last.log[e].from = CT_AUTHENTICATED
    /\ clients[last.slot].ctstate = CT_DISCONNECTED
    /\ ~clients[last.slot].is_auth
    /\ \E i \in Slots : clients[i].is_auth /\ clients[i].is_used

\* the bytes in the buffer when the last client handler entered its decode
\* loop: what was pending and what recv() stored behind it
FillAtEntry == Len(last.log[1].pending) + Len(last.log[1].data)

\* C34: receive-buffer bound.  Between handler invocations every slot has
\* recv_s <= 4099, one less than the 4100 bytes of the buffer, so the length
\* handle_client asks recv() for is never 0 and nothing is stored past the
\* buffer; the decode loop starts with at most 4100 bytes, every packet it
\* hands on declares at most 4096 bytes, and the bytes behind the header
\* fit the 16-bit cdata_len.
C34_RecvBufferBound ==
    /\ \A i \in Slots :
          /\ clients[i].recv_s <= CLI_PKT_RSIZE - 1
          /\ CLI_PKT_RSIZE - clients[i].recv_s >= 1
          /\ Len(clients[i].recv_buf) <= CLI_PKT_RSIZE
    /\ last.op = "handle_client" =>
          /\ Len(last.log[1].pending) <= CLI_PKT_RSIZE - 1
          /\ FillAtEntry <= CLI_PKT_RSIZE
          /\ FillAtEntry >= CLI_PKT_MIN_RSIZ =>
                U16(FillAtEntry - CLI_PKT_MIN_RSIZ) = FillAtEntry - CLI_PKT_MIN_RSIZ
          /\ clients[last.slot].recv_s <= FillAtEntry
          /\ \A e \in EvsOf("frame") :
                /\ last.log[e].len <= CLI_PKT_DATA_SIZ
                /\ CLI_PKT_MIN_RSIZ + last.log[e].len <= FillAtEntry
          /\ \A e \in EvsOf("tun_write") :
                Len(last.log[e].data) <= CLI_PKT_DATA_SIZ

\* a handler has returned with 4099 bytes in the buffer: a packet of the
\* largest size that lacks one byte
C34_Witness ==
    /\ last.op = "handle_client"
    /\ clients[last.slot].is_used
    /\ clients[last.slot].recv_s = CLI_PKT_RSIZE - 1
    /\ EvsOf("frame") = {}

\* a handler has found 4100 bytes in the buffer and has written the 4096
\* bytes of the packet to the TUN handle
C34_WitnessFull ==
    /\ last.op = "handle_client"
    /\ FillAtEntry = CLI_PKT_RSIZE
    /\ \E e \in EvsOf("tun_write") : Len(last.log[e].data) = CLI_PKT_DATA_SIZ
    /\ clients[last.slot].recv_s = 0

\* C35: stop is monotone.  From the moment the signal handlers are
\* installed, once a shutdown signal has set stop the flag is never reset
\* to false for the rest of the run: a signal delivered at any point,
\* start-up included, leaves stop set until the server is down.
C35_StopMonotone == [][stop => stop']_vars

\* the same from the moment init_state has returned: a signal delivered
\* after it stays set
C35_StopMonotoneAfterInit ==
    [][(stop /\ pc # "init_state") => stop']_vars

\* a signal came while init_state had not run yet, init_state has cleared
\* the flag, and the server is in its loop, waiting in poll with stop unset
C35_SignalLost ==
    /\ sys.sig_pc = "init_state"
    /\ ~stop
    /\ pc = "poll"

\* the pass over the client entries ends and the loop goes back to its top
PassEnds == pc = "clients" /\ pc' = "top"

\* every client entry that poll reported readable has had its handler
\* called in this pass
ReadableServed == \A j \in Slots : HasIn(loop.cl[j]) => j < loop.i

\* C36: no client starvation.  A client whose socket is reported readable
\* at a wakeup has its handler called during that wakeup, whatever events
\* are reported on the other client slots: the pass over the client entries
\* does not end before every readable entry has been served.
C36_NoStarvation == [][PassEnds => ReadableServed]_vars

\* the same for the passes that do not end at an entry with an error event
\* alone
C36_ServedUnlessErrorOnly ==
    [][(PassEnds /\ ~(loop.i < MaxConn /\ loop.rv > 0)) => ReadableServed]_vars

\* the loop is back at its top after a wakeup in which slot 1 was readable
\* and was not served, because the pass ended at the error event of slot 0
C36_Starved ==
    /\ pc = "top"
    /\ loop.cl[0] = "err"
    /\ HasIn(loop.cl[1])
    /\ loop.i = 0
    /\ loop.rv > 0

\* the sends of packets of one type to slot i in a log
TypeSendsTo(log, i, type) == {e \in SendsTo(log, i) : log[e].data[1] = type}

\* the send at position e of the log came through: whole, or, as the code
\* reads it, with a return value above 0
CameThrough(log, e, whole) ==
    IF whole THEN log[e].ret = Len(log[e].data) ELSE log[e].ret > 0

\* One handler step seen from slot i.  BANNER is sent only to a slot that
\* was NEW, AUTH_OK only to a slot that was not yet AUTHENTICATED and
\* behind the BANNER, DATA only to a slot that was AUTHENTICATED; a slot
\* that has become ESTABLISHED has had its BANNER come through, and a slot
\* that has become AUTHENTICATED was ESTABLISHED, or has had its BANNER come
\* through in this step, and has had its AUTH_OK come through.
HandshakeStep(i, whole) ==
    LET log == last'.log
        B == TypeSendsTo(log, i, SRV_PKT_BANNER)
        A == TypeSendsTo(log, i, SRV_PKT_AUTH_OK)
        D == TypeSendsTo(log, i, SRV_PKT_DATA)
    IN  /\ B # {} => /\ clients[i].ctstate = CT_NEW
                     /\ Cardinality(B) = 1
                     /\ last'.op = "handle_client"
        /\ A # {} => /\ clients[i].ctstate \in {CT_NEW, CT_ESTABLISHED}
                     /\ Cardinality(A) = 1
                     /\ last'.op = "handle_client"
                     /\ clients[i].ctstate = CT_NEW =>
                           \E b \in B : \A a \in A : b < a
        /\ D # {} => /\ clients[i].ctstate = CT_AUTHENTICATED
                     /\ last'.op = "handle_iface_read"
        /\ (clients'[i].ctstate = CT_ESTABLISHED
               /\ clients[i].ctstate # CT_ESTABLISHED)
              => \E b \in B : CameThrough(log, b, whole)
        /\ (clients'[i].ctstate = CT_AUTHENTICATED
               /\ clients[i].ctstate # CT_AUTHENTICATED)
              => /\ \E a \in A : CameThrough(log, a, whole)
                 /\ \/ clients[i].ctstate = CT_ESTABLISHED
                    \/ \E b \in B : CameThrough(log, b, whole)

\* C37: handshake ordering on the wire.  On every connection the server's
\* packets go out in the order BANNER, AUTH_OK, DATA; no slot is ESTABLISHED
\* at a handler boundary without its BANNER sent whole, none is
\* AUTHENTICATED without its AUTH_OK sent whole, and no DATA packet is sent
\* to a client before its AUTH_OK.
C37_HandshakeOrder == [][\A i \in Slots : HandshakeStep(i, TRUE)]_vars

\* the same with a send taken as come through when it returned more than 0
C37_HandshakeOrderAsCoded == [][\A i \in Slots : HandshakeStep(i, FALSE)]_vars

\* a slot is ESTABLISHED after a BANNER of which one byte was sent
C37_TruncatedBanner ==
    /\ last.op = "handle_client"
    /\ clients[last.slot].ctstate = CT_ESTABLISHED
    /\ \E b \in TypeSendsTo(last.log, last.slot, SRV_PKT_BANNER) :
           last.log[b].ret = 1

\* the credential structure an AUTH payload fills, the bytes the packet
\* does not carry being NUL, with the last byte of each field set to NUL
CredentialsOf(payload) ==
    auth_terminate(Zeros(CLI_PKT_MIN_RSIZ)
                   \o SubSeq(payload \o Zeros(SIZEOF_auth_username
                                              + SIZEOF_auth_password),
                             1, SIZEOF_auth_username + SIZEOF_auth_password))

\* The AUTH packet at position e of the log stayed inside its frame: the
\* credentials the adapter was asked about are those of the packet's
\* payload, and every packet dispatched behind it is the packet of the
\* stream at that place, a DATA packet being written as it came in.
InsideFrame(e) ==
    /\ FrameNo(e) <= Len(StreamFrames(Input))
    /\ (e < Len(last.log) /\ last.log[e + 1].k = "auth") =>
          LET c == CredentialsOf(StreamFrames(Input)[FrameNo(e)].payload)
          IN  /\ last.log[e + 1].user = CStr(c, AuthUserOff, SIZEOF_auth_username)
              /\ last.log[e + 1].pass = CStr(c, AuthPassOff, SIZEOF_auth_password)
    /\ \A g \in EvsOf("frame") :
          g > e =>
             /\ FrameNo(g) <= Len(StreamFrames(Input))
             /\ last.log[g].type = StreamFrames(Input)[FrameNo(g)].type
             /\ last.log[g].len = Len(StreamFrames(Input)[FrameNo(g)].payload)
             /\ (g < Len(last.log) /\ last.log[g + 1].k = "tun_write") =>
                   last.log[g + 1].data = StreamFrames(Input)[FrameNo(g)].payload

\* the AUTH packets the last client handler passed to handle_auth
AuthFrames ==
    {e \in EvsOf("frame") :
        /\ last.log[e].type = CLI_PKT_AUTH
        /\ e < Len(last.log)
        /\ last.log[e + 1].k = "auth"}

\* C38: AUTH processing stays inside its frame.  When the length of an AUTH
\* packet is smaller than the credential structure, the credentials given
\* to the adapter are determined by the packet's payload alone, and the NUL
\* termination of username and password changes no byte behind the
\* packet's 4 + length bytes: the packets buffered behind it are decoded
\* unchanged.
C38_AuthInsideFrame ==
    last.op = "handle_client" =>
        \A e \in AuthFrames :
            last.log[e].len < SIZEOF_auth_username + SIZEOF_auth_password
                => InsideFrame(e)

\* the same for the AUTH packets that carry the whole credential structure
C38_FullAuthInsideFrame ==
    last.op = "handle_client" =>
        \A e \in AuthFrames :
            last.log[e].len >= SIZEOF_auth_username + SIZEOF_auth_password
                => InsideFrame(e)

\* a whole AUTH packet has been answered with packets buffered behind it
C38_FullAuthSeen ==
    /\ last.op = "handle_client"
    /\ \E e \in AuthFrames :
          last.log[e].len = SIZEOF_auth_username + SIZEOF_auth_password

\* thread t waits for the session-stack lock, or for the session-map lock
WaitsStk(t) == callers[t].pc \in {"get", "put"}
WaitsMap(t) == callers[t].pc \in {"insert", "remove", "find"}

\* no thread waits for the session-stack lock with the session-map lock in
\* its hands; a thread outside any call holds no lock; and while a call is
\* in progress some thread inside a call can take a step
C39_LockDiscipline ==
    /\ \A t \in UdpThreads :
          /\ WaitsStk(t) => sess_map_lock # t
          /\ callers[t].pc = "idle" =>
                sess_stk_lock # t /\ sess_map_lock # t
    /\ (\E t \in UdpThreads : callers[t].pc # "idle") =>
          \E t \in UdpThreads : ENABLED udp_run(t)

\* a thread that takes the session-stack lock does not hold the session-map
\* lock then, and a thread that takes the map lock inside get_udp_sess or
\* put_udp_session holds the stack lock already
C39_LockOrder ==
    \A t \in UdpThreads :
        /\ (sess_stk_lock' = t /\ sess_stk_lock # t) => sess_map_lock # t
        /\ (sess_map_lock' = t /\ sess_map_lock # t
              /\ callers[t].pc \in {"insert", "remove"}) => sess_stk_lock = t

====
